---------------------------- MODULE Spec2Model ----------------------------
(***************************************************************************)
(* Model of the metadata API's resolver (internal/db/db.go) and of the     *)
(* multi-category batch handler (internal/api/handlers.go).                *)
(*                                                                         *)
(* The two SQLite stores are read-only: their content is chosen in Init    *)
(* and never changes.  A table is a sequence of rows; the position of a    *)
(* row in the sequence is the store-native (rowid) order.  A statement on  *)
(* one table, or on tracks joined to albums, reads its rows in native      *)
(* order and ORDER BY is a stable sort of them: the tie order of equal     *)
(* sort keys is "store-defined", and the store resolves it by the order in *)
(* which it reads the rows.  The order of the statements without ORDER BY  *)
(* that join three tables depends on the plan the store chooses.           *)
(*                                                                         *)
(* Every resolver function is an operator computed the way the Go code     *)
(* computes it; the queries it issues may fail as its fault plan says.     *)
(***************************************************************************)
EXTENDS Integers, Sequences, FiniteSets, TLC

\* ------------------------------------------------------------------ bounds

\* Longest identifier list of one request category.
MaxIds == 2

\* Rows a result set yields before an iteration failure (rows.Err() # nil).
PartialRows == 1

\* ------------------------------------------------------------ SQL values

\* SQL NULL of a text column (sql.NullString{Valid: false}).
NullStr == "<NULL>"

\* SQL NULL of an integer column (sql.NullInt64{Valid: false}); the stored
\* integers of the model are all >= 0.
NullInt == -1

\* sql.NullString.String: the empty string for NULL.
Str(v) == IF v = NullStr THEN "" ELSE v

\* ----------------------------------------------------------- the stores

\* The artists table: rowid, public id, name.
ArtistRows ==
  << [rowid |-> 1, id |-> "p1", name |-> "P one"],
     [rowid |-> 2, id |-> "p2", name |-> "P two"],
     [rowid |-> 3, id |-> "p3", name |-> "P three"] >>

\* The albums table.
AlbumRows ==
  << [rowid |-> 1, id |-> "a1", name |-> "A one"],
     [rowid |-> 2, id |-> "a2", name |-> "A two"] >>

\* A tracks row.  album_rowid 9 names no album (the inner join drops the row).
TrackRow(rowid, id, isrc, pop, disc, num, alb) ==
  [rowid |-> rowid, id |-> id, name |-> id, isrc |-> isrc, popularity |-> pop,
   disc_number |-> disc, track_number |-> num, album_rowid |-> alb]

\* Contents the tracks table is drawn from.
TrackTables ==
  { \* two recordings of one isrc on one release, the less popular one first
    << TrackRow(1, "t1", "i1", 1, 1, 2, 1), TrackRow(2, "t2", "i1", 2, 1, 1, 1),
       TrackRow(3, "t3", "i2", 1, 1, 1, 2) >>,
    \* equal popularity, a NULL isrc, a recording without a release
    << TrackRow(1, "t1", "i2", 2, 2, 1, 2), TrackRow(2, "t2", "i1", 2, 1, 1, 1),
       TrackRow(3, "t3", NullStr, 1, 1, 2, 1), TrackRow(4, "t4", "i1", 2, 1, 3, 2),
       TrackRow(5, "t5", "i2", 3, 1, 1, 9) >>,
    \* one recording only
    << TrackRow(1, "t1", "i1", 1, 1, 1, 2) >> }

\* track_artists (track_rowid, artist_rowid).
TrackArtistTables ==
  { << [track_rowid |-> 1, artist_rowid |-> 2], [track_rowid |-> 1, artist_rowid |-> 1],
       [track_rowid |-> 2, artist_rowid |-> 2], [track_rowid |-> 4, artist_rowid |-> 3] >>,
    << >> }

\* album_images (album_rowid, url, width, height): duplicates, ascending
\* widths and equal widths occur.
AlbumImageRow(alb, url, w) == [album_rowid |-> alb, url |-> url, width |-> w, height |-> w]

AlbumImageTables ==
  { << AlbumImageRow(1, "u300", 300), AlbumImageRow(2, "v64", 64), AlbumImageRow(1, "u640", 640),
       AlbumImageRow(1, "u300", 300), AlbumImageRow(2, "v640", 640), AlbumImageRow(1, "w300", 300) >> }

\* artist_albums (artist_rowid, album_rowid, index_in_album), the index nullable.
ArtistAlbumRow(art, alb, idx) == [artist_rowid |-> art, album_rowid |-> alb, index_in_album |-> idx]

ArtistAlbumTables ==
  { \* p1 on a1 twice (index 2 and 0), p2 on a1 at 1, p3 on a1 unindexed
    << ArtistAlbumRow(1, 1, 2), ArtistAlbumRow(2, 1, 1), ArtistAlbumRow(1, 1, 0),
       ArtistAlbumRow(3, 1, NullInt), ArtistAlbumRow(2, 2, NullInt), ArtistAlbumRow(3, 2, 0) >>,
    \* later artists first; one row unindexed beside an indexed one
    << ArtistAlbumRow(3, 1, 0), ArtistAlbumRow(1, 1, 1), ArtistAlbumRow(1, 2, NullInt),
       ArtistAlbumRow(1, 2, 3), ArtistAlbumRow(2, 2, 1) >>,
    << >> }

\* artist_genres (artist_rowid, genre).
ArtistGenreTables ==
  { << [artist_rowid |-> 1, genre |-> "pop"], [artist_rowid |-> 2, genre |-> "rock"],
       [artist_rowid |-> 1, genre |-> "art pop"] >> }

\* artist_images (artist_rowid, url, width, height).
ArtistImageRow(art, url, w) == [artist_rowid |-> art, url |-> url, width |-> w, height |-> w]

ArtistImageTables ==
  { << ArtistImageRow(1, "x160", 160), ArtistImageRow(2, "y320", 320), ArtistImageRow(1, "x640", 640),
       ArtistImageRow(1, "x160", 160), ArtistImageRow(3, "z64", 64) >> }

\* track_files of the secondary store, at most one row for a recording:
\* (track_id, has_lyrics, original_title, version_title,
\*  language_of_performance, artist_roles), all but track_id nullable.
TrackFileRow(id, lyr, orig, ver, lang, roles) ==
  [track_id |-> id, has_lyrics |-> lyr, original_title |-> orig, version_title |-> ver,
   language_of_performance |-> lang, artist_roles |-> roles]

TrackFileTables ==
  { << TrackFileRow("t1", 1, "Orig", NullStr, "[\"en\"]", "[\"vocals\""),
       TrackFileRow("t2", 0, NullStr, "Live", "[\"en\",1]", NullStr),
       TrackFileRow("t4", NullInt, NullStr, NullStr, "", "[\"guitar\"]"),
       TrackFileRow("t3", 2, NullStr, NullStr, NullStr, NullStr) >>,
    << >> }

\* The two statements that join artists, track_artists and tracks have no
\* ORDER BY: their rows come in the order of the join, which the store's
\* planner drives from tracks (the rows of a track in the native order of
\* track_artists) or from artists (in the order of the artists), as its
\* indexes and statistics make it choose, for each statement on its own.
JoinDrivers == [ single : {"tracks", "artists"}, batch : {"tracks", "artists"} ]

\* track_files.sqlite3 beside the primary file: "present", or "absent" (not
\* there or not reachable; track_files is then what it would hold).
FilesStates == { "present", "absent" }

\* The stores a run may start from.
Stores ==
  { st \in [ artists : {ArtistRows}, albums : {AlbumRows}, tracks : TrackTables,
             track_artists : TrackArtistTables, album_images : AlbumImageTables,
             artist_albums : ArtistAlbumTables, artist_genres : ArtistGenreTables,
             artist_images : ArtistImageTables, track_files : TrackFileTables,
             driver : JoinDrivers, files : FilesStates ] :
      /\ st.track_artists = << >> => st.driver = [single |-> "tracks", batch |-> "tracks"]
      /\ st.files = "absent" =>
           st.track_files # << >> /\ st.driver = [single |-> "tracks", batch |-> "tracks"] }

\* ------------------------------------------------------------ the handle

\* The database/sql drivers the program registers (import _ "modernc.org/sqlite").
RegisteredDrivers == { "sqlite" }

\* sql.Open(driverName, dataSourceName) finds the driver and makes a pool; it
\* opens no connection and does not look at the file.  TRUE: the error is nil.
sqlOpen(driverName) == driverName \in RegisteredDrivers

\* Open as if it made a connection to each store before it returns.
OpenConnected(st) ==
  IF ~sqlOpen("sqlite") THEN [db |-> "nil", err |-> "open main db"]
  ELSE IF ~sqlOpen("sqlite") \/ st.files = "absent"
    THEN [db |-> "nil", err |-> "open track_files db"]
  ELSE [db |-> "DB", err |-> "nil"]

\* Open(dbPath) on the files st: the primary store, then track_files.sqlite3
\* of the same directory.
Open(st) ==
  IF ~sqlOpen("sqlite") THEN [db |-> "nil", err |-> "open main db"]
  ELSE IF ~sqlOpen("sqlite") THEN [db |-> "nil", err |-> "open track_files db"]
  ELSE [db |-> "DB", err |-> "nil"]

\* ------------------------------------------------------- SQL evaluation

\* The set of the elements of a sequence.
Range(s) == { s[i] : i \in 1..Len(s) }

\* The first n elements of s (all of s when it is shorter).
Prefix(s, n) == SubSeq(s, 1, IF Len(s) < n THEN Len(s) ELSE n)

\* s with x inserted behind every element that x does not precede.
InsertBy(s, x, Before(_, _)) ==
  LET ahead == { i \in 1..Len(s) : Before(x, s[i]) }
      p == IF ahead = {} THEN Len(s) + 1
           ELSE CHOOSE i \in ahead : \A j \in ahead : i <= j
  IN  SubSeq(s, 1, p - 1) \o <<x>> \o SubSeq(s, p, Len(s))

\* ORDER BY: the stable sort of s by Before.
SortBy(s, Before(_, _)) ==
  LET f[i \in 0..Len(s)] == IF i = 0 THEN << >> ELSE InsertBy(f[i - 1], s[i], Before)
  IN  f[Len(s)]

\* SELECT DISTINCT: s without the repetitions of a row.
Distinct(s) ==
  LET f[i \in 0..Len(s)] ==
        IF i = 0 THEN << >>
        ELSE IF s[i] \in Range(f[i - 1]) THEN f[i - 1] ELSE Append(f[i - 1], s[i])
  IN  f[Len(s)]

\* s mapped by Op.
MapSeq(s, Op(_)) == [ i \in 1..Len(s) |-> Op(s[i]) ]

\* The smallest element of a non-empty set of integers.
Min(S) == CHOOSE x \in S : \A y \in S : x <= y

\* The sum of f over its (finite) domain.
RECURSIVE SumOver(_, _)
SumOver(f, D) ==
  IF D = {} THEN 0
  ELSE LET d == CHOOSE x \in D : TRUE IN f[d] + SumOver(f, D \ {d})

\* The collation order of the identifiers (ORDER BY t.external_id_isrc).
IsrcOrder == << "i1", "i2" >>

IsrcRank(s) == CHOOSE i \in 1..Len(IsrcOrder) : IsrcOrder[i] = s

\* ---------------------------------------------------------- the queries
\* What the store answers to each statement of db.go when the statement
\* does not fail.

\* tracks t JOIN albums a ON t.album_rowid = a.rowid, in the native order of
\* tracks.
TracksJoinAlbums(st) ==
  LET HasAlbum(t) == \E i \in 1..Len(st.albums) : st.albums[i].rowid = t.album_rowid
      AlbumOf(t) == st.albums[CHOOSE i \in 1..Len(st.albums) : st.albums[i].rowid = t.album_rowid]
      Pair(t) == [t |-> t, a |-> AlbumOf(t)]
  IN  MapSeq(SelectSeq(st.tracks, HasAlbum), Pair)

\* The statement of LookupISRC without its ORDER BY.
QueryISRCUnordered(st, isrc) ==
  LET Match(r) == r.t.isrc # NullStr /\ r.t.isrc = isrc
  IN  SelectSeq(TracksJoinAlbums(st), Match)

\* ... WHERE t.external_id_isrc = ? ORDER BY t.popularity DESC
QueryISRC(st, isrc) ==
  LET Match(r) == r.t.isrc # NullStr /\ r.t.isrc = isrc
      Before(x, y) == x.t.popularity > y.t.popularity
  IN  SortBy(SelectSeq(TracksJoinAlbums(st), Match), Before)

\* The batched statement with ORDER BY t.external_id_isrc alone.
QueryBatchISRCsByIsrc(st, isrcs) ==
  LET Match(r) == r.t.isrc # NullStr /\ r.t.isrc \in Range(isrcs)
      Before(x, y) == IsrcRank(x.t.isrc) < IsrcRank(y.t.isrc)
  IN  SortBy(SelectSeq(TracksJoinAlbums(st), Match), Before)

\* ... WHERE t.external_id_isrc IN (...) ORDER BY t.external_id_isrc, t.popularity DESC
QueryBatchISRCs(st, isrcs) ==
  LET Match(r) == r.t.isrc # NullStr /\ r.t.isrc \in Range(isrcs)
      Before(x, y) ==
        \/ IsrcRank(x.t.isrc) < IsrcRank(y.t.isrc)
        \/ x.t.isrc = y.t.isrc /\ x.t.popularity > y.t.popularity
  IN  SortBy(SelectSeq(TracksJoinAlbums(st), Match), Before)

\* The letters of a search string in lower case (COLLATE NOCASE).
Lower(query) ==
  CASE query = "T1" -> "t1"
    [] query = "T4" -> "t4"
    [] OTHER -> query

\* name LIKE '%query%' COLLATE NOCASE: the names and the search strings of
\* the model have two letters, and a name holds no other string of two
\* letters than itself.
Like(name, query) == name = Lower(query)

\* ... WHERE t.name LIKE ? COLLATE NOCASE ORDER BY t.popularity DESC LIMIT ?
QuerySearchTrack(st, query, limit) ==
  LET Match(r) == Like(r.t.name, query)
      Before(x, y) == x.t.popularity > y.t.popularity
  IN  Prefix(SortBy(SelectSeq(TracksJoinAlbums(st), Match), Before), limit)

\* ... WHERE t.id = ?
QueryTrack(st, id) ==
  LET Match(r) == r.t.id = id
  IN  SelectSeq(TracksJoinAlbums(st), Match)

\* SELECT ... FROM artists WHERE id = ?
QueryArtist(st, id) ==
  LET Match(a) == a.id = id
  IN  SelectSeq(st.artists, Match)

\* SELECT ... FROM albums WHERE id = ?
QueryAlbum(st, id) ==
  LET Match(a) == a.id = id
  IN  SelectSeq(st.albums, Match)

\* The statement of GetAlbumTracks with ORDER BY t.track_number alone.
QueryAlbumTracksByNumber(st, albumID) ==
  LET Match(r) == r.a.id = albumID
      Before(x, y) == x.t.track_number < y.t.track_number
  IN  SortBy(SelectSeq(TracksJoinAlbums(st), Match), Before)

\* ... WHERE a.id = ? ORDER BY t.disc_number, t.track_number
QueryAlbumTracks(st, albumID) ==
  LET Match(r) == r.a.id = albumID
      Before(x, y) ==
        \/ x.t.disc_number < y.t.disc_number
        \/ x.t.disc_number = y.t.disc_number /\ x.t.track_number < y.t.track_number
  IN  SortBy(SelectSeq(TracksJoinAlbums(st), Match), Before)

\* The image a row of an image table holds.
ImageOf(r) == [URL |-> r.url, Width |-> r.width, Height |-> r.height]

\* SELECT DISTINCT url, width, height FROM album_images
\* WHERE album_rowid = ? ORDER BY width DESC
QueryAlbumImages(st, albumRowID) ==
  LET Match(r) == r.album_rowid = albumRowID
      Before(x, y) == x.Width > y.Width
  IN  SortBy(Distinct(MapSeq(SelectSeq(st.album_images, Match), ImageOf)), Before)

\* SELECT DISTINCT album_rowid, url, width, height FROM album_images
\* WHERE album_rowid IN (...) ORDER BY album_rowid, width DESC
QueryBatchAlbumImages(st, albumRowIDs) ==
  LET Match(r) == r.album_rowid \in albumRowIDs
      Before(x, y) ==
        \/ x.album_rowid < y.album_rowid
        \/ x.album_rowid = y.album_rowid /\ x.width > y.width
  IN  SortBy(Distinct(SelectSeq(st.album_images, Match)), Before)

\* The statement of getArtistImages without its ORDER BY.
QueryArtistImagesUnordered(st, artistRowID) ==
  LET Match(r) == r.artist_rowid = artistRowID
  IN  MapSeq(SelectSeq(st.artist_images, Match), ImageOf)

\* SELECT url, width, height FROM artist_images
\* WHERE artist_rowid = ? ORDER BY width DESC
QueryArtistImages(st, artistRowID) ==
  LET Match(r) == r.artist_rowid = artistRowID
      Before(x, y) == x.Width > y.Width
  IN  SortBy(MapSeq(SelectSeq(st.artist_images, Match), ImageOf), Before)

\* SELECT artist_rowid, url, width, height FROM artist_images
\* WHERE artist_rowid IN (...) ORDER BY artist_rowid, width DESC
QueryBatchArtistImages(st, artistRowIDs) ==
  LET Match(r) == r.artist_rowid \in artistRowIDs
      Before(x, y) ==
        \/ x.artist_rowid < y.artist_rowid
        \/ x.artist_rowid = y.artist_rowid /\ x.width > y.width
  IN  SortBy(SelectSeq(st.artist_images, Match), Before)

\* SELECT genre FROM artist_genres WHERE artist_rowid = ?
QueryArtistGenres(st, artistRowID) ==
  LET Match(r) == r.artist_rowid = artistRowID
      Genre(r) == r.genre
  IN  MapSeq(SelectSeq(st.artist_genres, Match), Genre)

\* SELECT artist_rowid, genre FROM artist_genres WHERE artist_rowid IN (...)
QueryBatchArtistGenres(st, artistRowIDs) ==
  LET Match(r) == r.artist_rowid \in artistRowIDs
  IN  SelectSeq(st.artist_genres, Match)

\* The statement of getAlbumArtists without "aa.index_in_album IS NOT NULL".
QueryAlbumArtistsAnyIndex(st, albumRowID) ==
  LET Indexes(a) == { st.artist_albums[i].index_in_album : i \in
                        { j \in 1..Len(st.artist_albums) :
                            /\ st.artist_albums[j].artist_rowid = a.rowid
                            /\ st.artist_albums[j].album_rowid = albumRowID } }
      InGroup(a) == Indexes(a) # {}
      Row(a) == [album_rowid |-> albumRowID, id |-> a.id, name |-> a.name,
                 rowid |-> a.rowid, idx |-> Min(Indexes(a))]
      Before(x, y) == x.idx < y.idx
  IN  SortBy(MapSeq(SelectSeq(st.artists, InGroup), Row), Before)

\* artists a JOIN artist_albums aa ON a.rowid = aa.artist_rowid
\* WHERE aa.album_rowid = ? AND aa.index_in_album IS NOT NULL
\* GROUP BY a.id ORDER BY MIN(aa.index_in_album): one row for an artist, with
\* the smallest index of its rows on the album.
QueryAlbumArtists(st, albumRowID) ==
  LET Indexes(a) == { st.artist_albums[i].index_in_album : i \in
                        { j \in 1..Len(st.artist_albums) :
                            /\ st.artist_albums[j].artist_rowid = a.rowid
                            /\ st.artist_albums[j].album_rowid = albumRowID
                            /\ st.artist_albums[j].index_in_album # NullInt } }
      InGroup(a) == Indexes(a) # {}
      Row(a) == [album_rowid |-> albumRowID, id |-> a.id, name |-> a.name,
                 rowid |-> a.rowid, idx |-> Min(Indexes(a))]
      Before(x, y) == x.idx < y.idx
  IN  SortBy(MapSeq(SelectSeq(st.artists, InGroup), Row), Before)

\* The integers of a finite set, ascending.
RECURSIVE AscSeq(_)
AscSeq(S) == IF S = {} THEN << >> ELSE << Min(S) >> \o AscSeq(S \ {Min(S)})

\* The concatenation of Op(s[1]), Op(s[2]), ...
FlatMap(s, Op(_)) ==
  LET f[i \in 0..Len(s)] == IF i = 0 THEN << >> ELSE f[i - 1] \o Op(s[i])
  IN  f[Len(s)]

\* The same with WHERE aa.album_rowid IN (...) GROUP BY aa.album_rowid, a.id
\* ORDER BY aa.album_rowid, idx: one row for a pair of album and artist.
QueryBatchAlbumArtists(st, albumRowIDs) ==
  LET Indexes(a, alb) == { st.artist_albums[i].index_in_album : i \in
                             { j \in 1..Len(st.artist_albums) :
                                 /\ st.artist_albums[j].artist_rowid = a.rowid
                                 /\ st.artist_albums[j].album_rowid = alb
                                 /\ st.artist_albums[j].index_in_album # NullInt } }
      GroupsOf(a) ==
        LET InGroup(alb) == Indexes(a, alb) # {}
            Row(alb) == [album_rowid |-> alb, id |-> a.id, name |-> a.name,
                         rowid |-> a.rowid, idx |-> Min(Indexes(a, alb))]
        IN  MapSeq(SelectSeq(AscSeq(albumRowIDs), InGroup), Row)
      Before(x, y) ==
        \/ x.album_rowid < y.album_rowid
        \/ x.album_rowid = y.album_rowid /\ x.idx < y.idx
  IN  SortBy(FlatMap(st.artists, GroupsOf), Before)

\* The rows of a join of artists, track_artists and tracks in the order the
\* join driven from table yields them.
JoinOrder(rows, table) ==
  LET Before(x, y) == x.rowid < y.rowid
  IN  IF table = "artists" THEN SortBy(rows, Before) ELSE rows

\* artists a JOIN track_artists ta JOIN tracks t WHERE t.id = ?, no ORDER BY:
\* one row for a track_artists row of the track.
QueryTrackArtists(st, trackID) ==
  LET TrackOf(ta) == { i \in 1..Len(st.tracks) : st.tracks[i].rowid = ta.track_rowid }
      ArtistOf(ta) == { i \in 1..Len(st.artists) : st.artists[i].rowid = ta.artist_rowid }
      Match(ta) ==
        /\ ArtistOf(ta) # {}
        /\ \E i \in TrackOf(ta) : st.tracks[i].id = trackID
      Row(ta) ==
        LET a == st.artists[CHOOSE i \in ArtistOf(ta) : TRUE]
        IN  [track_id |-> trackID, id |-> a.id, name |-> a.name, rowid |-> a.rowid]
  IN  JoinOrder(MapSeq(SelectSeq(st.track_artists, Match), Row), st.driver.single)

\* The same with WHERE t.id IN (...).
QueryBatchTrackArtists(st, trackIDs) ==
  LET TrackOf(ta) == { i \in 1..Len(st.tracks) :
                         /\ st.tracks[i].rowid = ta.track_rowid
                         /\ st.tracks[i].id \in Range(trackIDs) }
      ArtistOf(ta) == { i \in 1..Len(st.artists) : st.artists[i].rowid = ta.artist_rowid }
      Match(ta) == ArtistOf(ta) # {} /\ TrackOf(ta) # {}
      Row(ta) ==
        LET a == st.artists[CHOOSE i \in ArtistOf(ta) : TRUE]
            t == st.tracks[CHOOSE i \in TrackOf(ta) : TRUE]
        IN  [track_id |-> t.id, id |-> a.id, name |-> a.name, rowid |-> a.rowid]
  IN  JoinOrder(MapSeq(SelectSeq(st.track_artists, Match), Row), st.driver.batch)

\* SELECT ... FROM track_files WHERE track_id = ?
QueryTrackFiles(st, trackID) ==
  LET Match(r) == r.track_id = trackID
  IN  SelectSeq(st.track_files, Match)

\* SELECT ... FROM track_files WHERE track_id IN (...)
QueryBatchTrackFiles(st, trackIDs) ==
  LET Match(r) == r.track_id \in Range(trackIDs)
  IN  SelectSeq(st.track_files, Match)

\* ------------------------------------------------------------ fault plans
\* What goes wrong during one call.  primary says how the call's first query
\* ends: "ok", "issue" (QueryContext returns an error), "scan" (rows.Scan
\* fails on the first row) or "iter" (the result set ends early and
\* rows.Err() is not nil).  sub names the kinds of secondary fetch that fail
\* and submode how: "fail" (at issue or in Scan) or "iter".  cancel marks a
\* plan that is the effect of the caller's context being cancelled while the
\* call still has queries to run.

SubFetches ==
  { "albumImages", "albumArtists", "trackArtists", "artistGenres", "artistImages", "trackFiles" }

NoFault == [primary |-> "ok", sub |-> {}, submode |-> "fail", cancel |-> FALSE]

SubMode(f, kind) == IF kind \in f.sub THEN f.submode ELSE "ok"

\* How a statement on the secondary store ends: the connection of an absent
\* store cannot be opened and the statement fails when it is issued.
FilesMode(st, f) == IF st.files = "absent" THEN "fail" ELSE SubMode(f, "trackFiles")

\* The rows a Go read loop has appended when it ends, whether the function
\* returns an error, and whether it returns nil in place of its result.
ReadRows(rows, mode) ==
  CASE mode = "ok"   -> [rows |-> rows, err |-> FALSE, nil |-> FALSE]
    [] mode = "fail" -> [rows |-> << >>, err |-> TRUE, nil |-> TRUE]
    [] mode = "iter" -> [rows |-> Prefix(rows, PartialRows), err |-> TRUE, nil |-> FALSE]

\* ------------------------------------------------------------- Go values

\* A Go map is a function on its keys; a missing key reads as the zero value.
EmptyMap == << >>

MapGet(m, k, zero) == IF k \in DOMAIN m THEN m[k] ELSE zero

MapPut(m, k, v) == [ x \in (DOMAIN m) \cup {k} |-> IF x = k THEN v ELSE m[x] ]

\* result[key] = append(result[key], val) over the rows of a result set.
GroupRows(rows, Key(_), Val(_)) ==
  [ k \in { Key(rows[i]) : i \in 1..Len(rows) } |->
      LET Mine(r) == Key(r) = k IN MapSeq(SelectSeq(rows, Mine), Val) ]

\* The payloads of the model that encoding/json.Unmarshal decodes into a
\* []string without an error; for every other payload it returns one.
jsonWellFormed == { "[\"en\"]", "[\"guitar\"]" }

jsonUnmarshalErr(payload) == payload \notin jsonWellFormed

\* encoding/json.Unmarshal of a stored payload into a []string that holds
\* target: a payload with a syntax error leaves the target as it is; an
\* element of the wrong type is left at its zero value and the rest is
\* decoded.  The error is dropped by both callers.
jsonUnmarshal(payload, target) ==
  CASE payload = "[\"en\"]"     -> << "en" >>
    [] payload = "[\"guitar\"]" -> << "guitar" >>
    [] payload = "[\"en\",1]"   -> << "en", "" >>
    [] OTHER                    -> target

\* models.Track as rows.Scan fills it from a tracks row; Album is a pointer
\* (empty for nil), HasLyrics a *bool ("unknown" for nil).
ScanTrack(t) ==
  [ ID |-> t.id, Name |-> t.name, ISRC |-> Str(t.isrc), Popularity |-> t.popularity,
    TrackNum |-> t.track_number, DiscNum |-> t.disc_number,
    Album |-> << >>, Artists |-> << >>,
    OriginalTitle |-> "", VersionTitle |-> "", HasLyrics |-> "unknown",
    Languages |-> << >>, ArtistRoles |-> << >> ]

\* ------------------------------------------------------ single-entity path
\* A value used more than once is handed to a local operator, as the Go code
\* holds it in a variable.

getArtistGenres(st, f, artistRowID) ==
  ReadRows(QueryArtistGenres(st, artistRowID), SubMode(f, "artistGenres"))

getAlbumImages(st, f, albumRowID) ==
  ReadRows(QueryAlbumImages(st, albumRowID), SubMode(f, "albumImages"))

getArtistImages(st, f, artistRowID) ==
  ReadRows(QueryArtistImages(st, artistRowID), SubMode(f, "artistImages"))

\* An artist row with its genres and images fetched (the body of the read
\* loops of getTrackArtists and getAlbumArtists).
HydrateArtist(st, f, row) ==
  [ ID |-> row.id, Name |-> row.name,
    Genres |-> getArtistGenres(st, f, row.rowid).rows,
    Images |-> getArtistImages(st, f, row.rowid).rows ]

\* The artists of a result set read as ReadRows says, each hydrated: two
\* queries for a row read.
ReadArtists(st, f, r) ==
  LET Hydrate(row) == HydrateArtist(st, f, row)
  IN  [val |-> MapSeq(r.rows, Hydrate), err |-> r.err, q |-> 1 + 2 * Len(r.rows)]

getTrackArtists(st, f, trackID) ==
  ReadArtists(st, f, ReadRows(QueryTrackArtists(st, trackID), SubMode(f, "trackArtists")))

getAlbumArtists(st, f, albumRowID) ==
  ReadArtists(st, f, ReadRows(QueryAlbumArtists(st, albumRowID), SubMode(f, "albumArtists")))

\* The track with the annotation of its track_files row, if the row is read.
enrichTrackFromFiles(st, f, t) ==
  LET Enrich(r, lang, roles) ==
        [ t EXCEPT
            !.HasLyrics = IF r.has_lyrics # NullInt
                          THEN (IF r.has_lyrics = 1 THEN "true" ELSE "false")
                          ELSE @,
            !.OriginalTitle = Str(r.original_title),
            !.VersionTitle = Str(r.version_title),
            !.Languages = IF lang # "" THEN jsonUnmarshal(lang, @) ELSE @,
            !.ArtistRoles = IF roles # "" THEN jsonUnmarshal(roles, @) ELSE @ ]
      Scan(rows) ==
        IF FilesMode(st, f) # "ok" \/ rows = << >> THEN t
        ELSE Enrich(rows[1], Str(rows[1].language_of_performance), Str(rows[1].artist_roles))
  IN  Scan(QueryTrackFiles(st, t.ID))

\* scanTrackWithAlbum leaving the release of the track unset.
scanTrackOnly(st, f, row) ==
  LET Build(artists) ==
        [ track |-> << enrichTrackFromFiles(st, f,
                         [ ScanTrack(row.t) EXCEPT !.Artists = artists.val ]) >>,
          err |-> FALSE,
          q |-> artists.q + 1 ]
  IN  IF f.primary = "scan" THEN [track |-> << >>, err |-> TRUE, q |-> 0]
      ELSE Build(getTrackArtists(st, f, row.t.id))

\* One row of a tracks-with-albums result set made a hydrated track; q counts
\* the queries issued on the way.
scanTrackWithAlbum(st, f, row) ==
  LET Build(images, albumArtists, artists) ==
        [ track |->
            << enrichTrackFromFiles(st, f,
                 [ ScanTrack(row.t) EXCEPT
                     !.Album = << [ ID |-> row.a.id, Name |-> row.a.name,
                                    Images |-> images.rows, Artists |-> albumArtists.val ] >>,
                     !.Artists = artists.val ]) >>,
          err |-> FALSE,
          q |-> 1 + albumArtists.q + artists.q + 1 ]
  IN  IF f.primary = "scan" THEN [track |-> << >>, err |-> TRUE, q |-> 0]
      ELSE Build(getAlbumImages(st, f, row.a.rowid), getAlbumArtists(st, f, row.a.rowid),
                 getTrackArtists(st, f, row.t.id))

\* The tracks and the query count of the rows a read loop has scanned.
ScannedTracks(scanned, err) ==
  LET Track(s) == s.track
      Q(s) == s.q
  IN  [ val |-> MapSeq(scanned, Track), err |-> err,
        q |-> 1 + SumOver(MapSeq(scanned, Q), 1..Len(scanned)) ]

LookupISRC(st, f, isrc) ==
  LET Scan(row) ==
        LET One(s) == [track |-> s.track[1], q |-> s.q] IN One(scanTrackWithAlbum(st, f, row))
      Read(rows) ==
        IF f.primary = "scan" /\ rows # << >>
        THEN [val |-> << >>, err |-> TRUE, q |-> 1]
        ELSE ScannedTracks(MapSeq(rows, Scan), f.primary = "iter")
      Loop(all) == Read(IF f.primary = "iter" THEN Prefix(all, PartialRows) ELSE all)
  IN  IF f.primary = "issue" THEN [val |-> << >>, err |-> TRUE, q |-> 1]
      ELSE Loop(QueryISRC(st, isrc))

\* The read loop of LookupISRC over the rows of the search statement; a limit
\* out of 1..50 is 20.
SearchTrack(st, f, query, limit) ==
  LET Scan(row) ==
        LET One(s) == [track |-> s.track[1], q |-> s.q] IN One(scanTrackWithAlbum(st, f, row))
      Read(rows) ==
        IF f.primary = "scan" /\ rows # << >>
        THEN [val |-> << >>, err |-> TRUE, q |-> 1]
        ELSE ScannedTracks(MapSeq(rows, Scan), f.primary = "iter")
      Loop(all) == Read(IF f.primary = "iter" THEN Prefix(all, PartialRows) ELSE all)
  IN  IF f.primary = "issue" THEN [val |-> << >>, err |-> TRUE, q |-> 1]
      ELSE Loop(QuerySearchTrack(st, query, IF limit <= 0 \/ limit > 50 THEN 20 ELSE limit))

\* The first rows.Next() decides alone: when it reports no row, rows.Err() is
\* not looked at.
LookupTrack(st, f, id) ==
  LET Ret(s) == [val |-> s.track, err |-> s.err, q |-> 1 + s.q]
      Read(rows) ==
        IF f.primary = "iter" \/ rows = << >>
        THEN [val |-> << >>, err |-> FALSE, q |-> 1]
        ELSE Ret(scanTrackWithAlbum(st, f, rows[1]))
  IN  IF f.primary = "issue" THEN [val |-> << >>, err |-> TRUE, q |-> 1]
      ELSE Read(QueryTrack(st, id))

\* row.Scan reports a failed query, a failed advance and a failed scan, and
\* sql.ErrNoRows when the result set is empty.
LookupArtist(st, f, id) ==
  LET Read(rows) ==
        IF rows = << >> THEN [val |-> << >>, err |-> FALSE, q |-> 1]
        ELSE IF f.primary = "scan" THEN [val |-> << >>, err |-> TRUE, q |-> 1]
        ELSE [val |-> << HydrateArtist(st, f, rows[1]) >>, err |-> FALSE, q |-> 3]
  IN  IF f.primary \in {"issue", "iter"} THEN [val |-> << >>, err |-> TRUE, q |-> 1]
      ELSE Read(QueryArtist(st, id))

LookupAlbum(st, f, id) ==
  LET Build(row, images, artists) ==
        [ val |-> << [ ID |-> row.id, Name |-> row.name,
                       Images |-> images.rows, Artists |-> artists.val ] >>,
          err |-> FALSE, q |-> 2 + artists.q ]
      Read(rows) ==
        IF rows = << >> THEN [val |-> << >>, err |-> FALSE, q |-> 1]
        ELSE IF f.primary = "scan" THEN [val |-> << >>, err |-> TRUE, q |-> 1]
        ELSE Build(rows[1], getAlbumImages(st, f, rows[1].rowid),
                   getAlbumArtists(st, f, rows[1].rowid))
  IN  IF f.primary \in {"issue", "iter"} THEN [val |-> << >>, err |-> TRUE, q |-> 1]
      ELSE Read(QueryAlbum(st, id))

\* The recordings of a release, without their Album.
GetAlbumTracks(st, f, albumID) ==
  LET Scan(row) ==
        LET One(artists) ==
              [ track |-> enrichTrackFromFiles(st, f,
                            [ ScanTrack(row.t) EXCEPT !.Artists = artists.val ]),
                q |-> artists.q + 1 ]
        IN  One(getTrackArtists(st, f, row.t.id))
      Read(rows) ==
        IF f.primary = "scan" /\ rows # << >>
        THEN [val |-> << >>, err |-> TRUE, q |-> 1]
        ELSE ScannedTracks(MapSeq(rows, Scan), f.primary = "iter")
      Loop(all) == Read(IF f.primary = "iter" THEN Prefix(all, PartialRows) ELSE all)
  IN  IF f.primary = "issue" THEN [val |-> << >>, err |-> TRUE, q |-> 1]
      ELSE Loop(QueryAlbumTracks(st, albumID))

\* The per-id loop of BatchLookupTracks, BatchLookupArtists and
\* BatchLookupAlbums: fs[i] is the fault plan of the lookup of ids[i]; an id
\* whose lookup fails or finds nothing gets no key; the error is always nil.
BatchLoop(ids, fs, Lookup(_, _)) ==
  LET Step(acc, id, r) ==
        [ result |-> IF ~r.err /\ r.val # << >> THEN MapPut(acc.result, id, r.val[1])
                     ELSE acc.result,
          q |-> acc.q + r.q ]
      loop[i \in 0..Len(ids)] ==
        IF i = 0 THEN [result |-> EmptyMap, q |-> 0]
        ELSE Step(loop[i - 1], ids[i], Lookup(fs[i], ids[i]))
      Ret(acc) == [val |-> acc.result, err |-> FALSE, q |-> acc.q]
  IN  Ret(loop[Len(ids)])

\* BatchLookupTracks returning at the first lookup that fails.
BatchLookupTracksAbortOnError(st, fs, ids) ==
  LET Lookup(f, id) == LookupTrack(st, f, id)
      Failed(i) == Lookup(fs[i], ids[i]).err
      Ret(r) == IF \E i \in 1..Len(ids) : Failed(i)
                THEN [val |-> EmptyMap, err |-> TRUE, q |-> r.q] ELSE r
  IN  Ret(BatchLoop(ids, fs, Lookup))

BatchLookupTracks(st, fs, ids) ==
  LET Lookup(f, id) == LookupTrack(st, f, id) IN BatchLoop(ids, fs, Lookup)

BatchLookupArtists(st, fs, ids) ==
  LET Lookup(f, id) == LookupArtist(st, f, id) IN BatchLoop(ids, fs, Lookup)

BatchLookupAlbums(st, fs, ids) ==
  LET Lookup(f, id) == LookupAlbum(st, f, id) IN BatchLoop(ids, fs, Lookup)

\* -------------------------------------------------------------- batch path
\* Each batched fetch returns val (its map), err, nil (it returned nil maps)
\* and q (the queries it issued: none for an empty key set).

NoFetch == [val |-> EmptyMap, rowids |-> {}, err |-> FALSE, nil |-> FALSE, q |-> 0]

\* The map of a batched fetch whose read loop ended as r says.
FetchedMap(r, Key(_), Val(_)) ==
  [ val |-> GroupRows(r.rows, Key, Val),
    rowids |-> { r.rows[i].rowid : i \in 1..Len(r.rows) },
    err |-> r.err, nil |-> r.nil, q |-> 1 ]

\* The same for a result set without a rowid column.
FetchedRows(r, Key(_), Val(_)) ==
  [val |-> GroupRows(r.rows, Key, Val), rowids |-> {}, err |-> r.err, nil |-> r.nil, q |-> 1]

batchGetAlbumImages(st, f, albumRowIDs) ==
  LET Key(row) == row.album_rowid
  IN  IF albumRowIDs = {} THEN NoFetch
      ELSE FetchedRows(ReadRows(QueryBatchAlbumImages(st, albumRowIDs), SubMode(f, "albumImages")),
                       Key, ImageOf)

\* artistWithRowID as the batched read loops scan it: no genres, no images yet.
ScanArtistWithRowID(row) ==
  [ID |-> row.id, Name |-> row.name, Genres |-> << >>, Images |-> << >>, rowid |-> row.rowid]

batchGetAlbumArtists(st, f, albumRowIDs) ==
  LET Key(row) == row.album_rowid
  IN  IF albumRowIDs = {} THEN NoFetch
      ELSE FetchedMap(ReadRows(QueryBatchAlbumArtists(st, albumRowIDs), SubMode(f, "albumArtists")),
                      Key, ScanArtistWithRowID)

batchGetTrackArtists(st, f, trackIDs) ==
  LET Key(row) == row.track_id
  IN  IF Len(trackIDs) = 0 THEN NoFetch
      ELSE FetchedMap(ReadRows(QueryBatchTrackArtists(st, trackIDs), SubMode(f, "trackArtists")),
                      Key, ScanArtistWithRowID)

\* The genres fetched with one statement for an artist rowid.
batchGetArtistGenresEach(st, f, artistRowIDs) ==
  LET Key(row) == row.artist_rowid
      Genre(row) == row.genre
  IN  [ FetchedRows(ReadRows(QueryBatchArtistGenres(st, artistRowIDs), SubMode(f, "artistGenres")),
                    Key, Genre)
          EXCEPT !.q = Cardinality(artistRowIDs) ]

batchGetArtistGenres(st, f, artistRowIDs) ==
  LET Key(row) == row.artist_rowid
      Genre(row) == row.genre
  IN  IF artistRowIDs = {} THEN NoFetch
      ELSE FetchedRows(ReadRows(QueryBatchArtistGenres(st, artistRowIDs), SubMode(f, "artistGenres")),
                       Key, Genre)

batchGetArtistImages(st, f, artistRowIDs) ==
  LET Key(row) == row.artist_rowid
  IN  IF artistRowIDs = {} THEN NoFetch
      ELSE FetchedRows(ReadRows(QueryBatchArtistImages(st, artistRowIDs), SubMode(f, "artistImages")),
                       Key, ImageOf)

\* trackFileData with HasLyrics a bool: false also for a NULL flag.
ScanTrackFileDataBool(r) ==
  LET Data(lang, roles) ==
        [ HasLyrics |-> IF r.has_lyrics = 1 THEN "true" ELSE "false",
          OriginalTitle |-> Str(r.original_title),
          VersionTitle |-> Str(r.version_title),
          Languages |-> IF lang # "" THEN jsonUnmarshal(lang, << >>) ELSE << >>,
          ArtistRoles |-> IF roles # "" THEN jsonUnmarshal(roles, << >>) ELSE << >> ]
  IN  Data(Str(r.language_of_performance), Str(r.artist_roles))

\* trackFileData of one track_files row.
ScanTrackFileData(r) ==
  LET Data(lang, roles) ==
        [ HasLyrics |-> IF r.has_lyrics # NullInt
                        THEN (IF r.has_lyrics = 1 THEN "true" ELSE "false")
                        ELSE "unknown",
          OriginalTitle |-> Str(r.original_title),
          VersionTitle |-> Str(r.version_title),
          Languages |-> IF lang # "" THEN jsonUnmarshal(lang, << >>) ELSE << >>,
          ArtistRoles |-> IF roles # "" THEN jsonUnmarshal(roles, << >>) ELSE << >> ]
  IN  Data(Str(r.language_of_performance), Str(r.artist_roles))

\* result[trackID] = tf: the last row of a track id stays.
batchEnrichTrackFiles(st, f, trackIDs) ==
  LET Read(r) ==
        LET m[i \in 0..Len(r.rows)] ==
              IF i = 0 THEN EmptyMap
              ELSE MapPut(m[i - 1], r.rows[i].track_id, ScanTrackFileData(r.rows[i]))
        IN  [val |-> m[Len(r.rows)], rowids |-> {}, err |-> r.err, nil |-> r.nil, q |-> 1]
  IN  IF Len(trackIDs) = 0 THEN NoFetch
      ELSE Read(ReadRows(QueryBatchTrackFiles(st, trackIDs), FilesMode(st, f)))

\* models.Artist of an artistWithRowID.
toArtists(awrs) ==
  LET Artist(a) == [ID |-> a.ID, Name |-> a.Name, Genres |-> a.Genres, Images |-> a.Images]
  IN  MapSeq(awrs, Artist)

\* The assembly with result[isrc] = []models.Track{track} in place of append.
AssembleResultsLastOnly(trackInfos, albumImages, albumArtists, trackArtists, artistGenres, artistImages, trackFilesData) ==
  LET Track(ti) == [ScanTrack(ti.t) EXCEPT !.Album = << [ID |-> ti.a.id, Name |-> ti.a.name,
                                                          Images |-> << >>, Artists |-> << >>] >>]
      m[i \in 0..Len(trackInfos)] ==
        IF i = 0 THEN EmptyMap
        ELSE MapPut(m[i - 1], Str(trackInfos[i].t.isrc), << Track(trackInfos[i]) >>)
  IN  m[Len(trackInfos)]

\* "Assemble results": every (track, album) pair of step 1 with what the
\* lookup maps hold for it, filed under the track's ISRC.
AssembleResults(trackInfos, albumImages, albumArtists, trackArtists, artistGenres, artistImages, trackFilesData) ==
  LET Hydrate(a) == [ a EXCEPT !.Genres = MapGet(artistGenres, a.rowid, << >>),
                               !.Images = MapGet(artistImages, a.rowid, << >>) ]
      Attach(m, key) == IF key \in DOMAIN m THEN toArtists(MapSeq(m[key], Hydrate)) ELSE << >>
      Enrich(t, tf) == [ t EXCEPT !.HasLyrics = tf.HasLyrics,
                                  !.OriginalTitle = tf.OriginalTitle,
                                  !.VersionTitle = tf.VersionTitle,
                                  !.Languages = tf.Languages,
                                  !.ArtistRoles = tf.ArtistRoles ]
      Track(ti) ==
        [ ScanTrack(ti.t) EXCEPT
            !.Album = << [ ID |-> ti.a.id, Name |-> ti.a.name,
                           Images |-> MapGet(albumImages, ti.a.rowid, << >>),
                           Artists |-> Attach(albumArtists, ti.a.rowid) ] >>,
            !.Artists = Attach(trackArtists, ti.t.id) ]
      Assemble(ti) ==
        IF ti.t.id \in DOMAIN trackFilesData
        THEN Enrich(Track(ti), trackFilesData[ti.t.id])
        ELSE Track(ti)
      Key(t) == t.ISRC
      Same(t) == t
  IN  GroupRows(MapSeq(trackInfos, Assemble), Key, Same)

\* BatchLookupISRCs, stage by stage.  The outcome of a call is "ok" (nil
\* error), "error" (non-nil error) or "panic" (the call faults and returns
\* nothing); q counts the queries it issued.

\* Steps 5 and 6 and the assembly.
FetchArtistData(st, f, trackInfos, albumImages, albumArtists, trackArtists) ==
  LET TrackID(ti) == ti.t.id
      Finish(artistGenres, artistImages, trackFilesData) ==
        [ outcome |-> "ok",
          result |-> AssembleResults(trackInfos, albumImages.val, albumArtists.val,
                                     trackArtists.val, artistGenres.val, artistImages.val,
                                     trackFilesData.val),
          q |-> 1 + albumImages.q + albumArtists.q + trackArtists.q
                  + artistGenres.q + artistImages.q + trackFilesData.q ]
  IN  Finish(batchGetArtistGenres(st, f, albumArtists.rowids \cup trackArtists.rowids),
             batchGetArtistImages(st, f, albumArtists.rowids \cup trackArtists.rowids),
             batchEnrichTrackFiles(st, f, MapSeq(trackInfos, TrackID)))

\* "Merge artist rowids": artistRowIDs[rowid] = true is an assignment to an
\* entry of the nil map that a failed step 3 returned.
MergeArtistRowIDs(st, f, trackInfos, albumImages, albumArtists, trackArtists) ==
  IF albumArtists.nil /\ trackArtists.rowids # {}
  THEN [ outcome |-> "panic", result |-> EmptyMap,
         q |-> 1 + albumImages.q + albumArtists.q + trackArtists.q ]
  ELSE FetchArtistData(st, f, trackInfos, albumImages, albumArtists, trackArtists)

\* Steps 2, 3 and 4 with a failed fetch returned to the caller in place of
\* being logged.
FetchRelationsOrFail(st, f, trackInfos) ==
  LET TrackID(ti) == ti.t.id
      albumRowIDs == { trackInfos[i].a.rowid : i \in 1..Len(trackInfos) }
      Check(albumImages, albumArtists, trackArtists) ==
        IF albumImages.err \/ albumArtists.err \/ trackArtists.err
        THEN [outcome |-> "error", result |-> EmptyMap, q |-> 4]
        ELSE FetchArtistData(st, f, trackInfos, albumImages, albumArtists, trackArtists)
  IN  Check(batchGetAlbumImages(st, f, albumRowIDs),
            batchGetAlbumArtists(st, f, albumRowIDs),
            batchGetTrackArtists(st, f, MapSeq(trackInfos, TrackID)))

\* Steps 2, 3 and 4: an error is logged and the (nil) map kept.
FetchRelations(st, f, trackInfos) ==
  LET TrackID(ti) == ti.t.id
      albumRowIDs == { trackInfos[i].a.rowid : i \in 1..Len(trackInfos) }
  IN  MergeArtistRowIDs(st, f, trackInfos,
                        batchGetAlbumImages(st, f, albumRowIDs),
                        batchGetAlbumArtists(st, f, albumRowIDs),
                        batchGetTrackArtists(st, f, MapSeq(trackInfos, TrackID)))

\* The read loop of step 1 over the rows the joined query yields.
ReadTrackInfos(st, f, trackInfos) ==
  IF f.primary = "scan" /\ trackInfos # << >>
    THEN [outcome |-> "error", result |-> EmptyMap, q |-> 1]
  ELSE IF f.primary = "iter" THEN [outcome |-> "error", result |-> EmptyMap, q |-> 1]
  ELSE IF trackInfos = << >> THEN [outcome |-> "ok", result |-> EmptyMap, q |-> 1]
  ELSE FetchRelations(st, f, trackInfos)

\* BatchLookupISRCs without "if len(isrcs) == 0".
BatchLookupISRCsUnguarded(st, f, isrcs) ==
  IF f.primary = "issue" THEN [outcome |-> "error", result |-> EmptyMap, q |-> 1]
  ELSE ReadTrackInfos(st, f, QueryBatchISRCs(st, isrcs))

BatchLookupISRCs(st, f, isrcs) ==
  IF Len(isrcs) = 0 THEN [outcome |-> "ok", result |-> EmptyMap, q |-> 0]
  ELSE IF f.primary = "issue" THEN [outcome |-> "error", result |-> EmptyMap, q |-> 1]
  ELSE ReadTrackInfos(st, f, QueryBatchISRCs(st, isrcs))

\* -------------------------------------------------------- the handler
\* batchLookup of handlers.go: the categories are resolved one after the
\* other on the request's context, then the response is written.

\* "maximum 400 total items allowed"
MaxTotalItems == 400

EmptyResponse ==
  [Tracks |-> EmptyMap, Artists |-> EmptyMap, Albums |-> EmptyMap, ISRCs |-> EmptyMap,
   Errors |-> {}]

\* --------------------------------------------------------------- inputs

IsrcIds == { "i1", "i2", "i9" }
TrackIds == { "t1", "t5", "t9" }
ArtistIds == { "p1", "p9" }
AlbumIds == { "a1", "a9" }
ReleaseIds == { "a1", "a2", "a9" }

\* Search strings (searchTrack wants two letters at least) and limits; the
\* handler's default limit is 20.
SearchQueries == { "t1", "T4", "zz" }
SearchLimits == { 0, 20 }

\* The sequences over S of length at most n.
SeqsUpTo(S, n) == UNION { [1..k -> S] : k \in 0..n }

\* The plan of a call whose primary query fails in mode m.
PrimaryFault(m) == [primary |-> m, sub |-> {}, submode |-> "fail", cancel |-> FALSE]

\* The secondary fetches in the order BatchLookupISRCs issues them.
SubOrder ==
  << "albumImages", "albumArtists", "trackArtists", "artistGenres", "artistImages", "trackFiles" >>

\* The context is cancelled before the primary query, while its result set
\* is read, or before the k-th secondary fetch: every later query fails.
CancelPlans ==
  { [primary |-> m, sub |-> SubFetches, submode |-> "fail", cancel |-> TRUE] :
      m \in {"issue", "iter"} }
  \cup
  { [primary |-> "ok", sub |-> { SubOrder[j] : j \in k..Len(SubOrder) },
     submode |-> "fail", cancel |-> TRUE] : k \in 1..Len(SubOrder) }

\* Every way one call may go wrong: a failing primary query, any set of
\* failing secondary fetches, one secondary fetch failing while its rows are
\* read, a cancellation.
FaultPlans ==
  { PrimaryFault(m) : m \in {"issue", "scan", "iter"} }
  \cup { [primary |-> "ok", sub |-> S, submode |-> "fail", cancel |-> FALSE] :
           S \in SUBSET SubFetches }
  \cup { [primary |-> "ok", sub |-> {k}, submode |-> "iter", cancel |-> FALSE] :
           k \in SubFetches }
  \cup CancelPlans

\* The plans of one lookup inside a per-id batch loop.
LoopPlans ==
  { NoFault, PrimaryFault("issue"), PrimaryFault("iter"),
    [primary |-> "ok", sub |-> SubFetches, submode |-> "fail", cancel |-> TRUE] }

\* The plans of a search: no fault, a failing statement, any one kind of
\* secondary fetch failing.
SearchPlans ==
  { NoFault, PrimaryFault("issue"), PrimaryFault("iter") }
  \cup { [primary |-> "ok", sub |-> {k}, submode |-> m, cancel |-> FALSE] :
           k \in SubFetches, m \in {"fail", "iter"} }

\* The plan of every query after the context is done.
Cancelled == [primary |-> "issue", sub |-> SubFetches, submode |-> "fail", cancel |-> TRUE]

\* The plans of a category of the handler: its context is done, or any plan.
HandlerPlans(done, plans) == IF done THEN {Cancelled} ELSE plans

\* ------------------------------------------------------------ the state

VARIABLES
  store,    \* the content of the two stores
  database, \* what main holds of Open: "unopened", "DB" (the handle) or "exit"
  ret,      \* the last call of the resolver made on its own: what it was given and returned
  hpc,      \* where batchLookup stands
  req,      \* its request
  resp,     \* its response as built so far
  ctxDone,  \* its request context is cancelled
  hlog,     \* per category resolved: the plans it ran under and the queries it issued
  call,     \* one BatchLookupISRCs call followed statement by statement
  pool      \* per position in LookupTrack, LookupISRC or SearchTrack: the calls that stand there

vars == << store, database, ret, hpc, req, resp, ctxDone, hlog, call, pool >>

NoRet == [op |-> "none", ids |-> << >>, plans |-> << >>, outcome |-> "none", val |-> << >>, q |-> 0]

NoRequest == [Tracks |-> << >>, Artists |-> << >>, Albums |-> << >>, ISRCs |-> << >>]

\* No BatchLookupISRCs call is followed: nothing fetched, no connection held.
NoCall ==
  [ pc |-> "idle", run |-> 0, isrcs |-> << >>, f |-> NoFault, k |-> 0,
    held |-> {}, done |-> {}, exhausted |-> FALSE,
    trackInfos |-> << >>, fetched |-> [ n \in SubFetches |-> NoFetch ], artistRowIDs |-> {},
    i |-> 0, result |-> EmptyMap, outcome |-> "none", first |-> << >> ]

\* The positions of a call that goes through scanTrackWithAlbum, each with
\* the connections of the primary pool the call holds there and whether it
\* asks the pool for one more.
PositionList ==
  << [at |-> "QueryContext", held |-> 0, wants |-> TRUE],
    [at |-> "rows", held |-> 1, wants |-> FALSE],
    [at |-> "getAlbumImages", held |-> 1, wants |-> TRUE],
    [at |-> "getAlbumImages.rows", held |-> 2, wants |-> FALSE],
    [at |-> "getAlbumArtists", held |-> 1, wants |-> TRUE],
    [at |-> "getAlbumArtists.rows", held |-> 2, wants |-> FALSE],
    [at |-> "getAlbumArtists.getArtistGenres", held |-> 2, wants |-> TRUE],
    [at |-> "getAlbumArtists.getArtistGenres.rows", held |-> 3, wants |-> FALSE],
    [at |-> "getAlbumArtists.getArtistImages", held |-> 2, wants |-> TRUE],
    [at |-> "getAlbumArtists.getArtistImages.rows", held |-> 3, wants |-> FALSE],
    [at |-> "getTrackArtists", held |-> 1, wants |-> TRUE],
    [at |-> "getTrackArtists.rows", held |-> 2, wants |-> FALSE],
    [at |-> "getTrackArtists.getArtistGenres", held |-> 2, wants |-> TRUE],
    [at |-> "getTrackArtists.getArtistGenres.rows", held |-> 3, wants |-> FALSE],
    [at |-> "getTrackArtists.getArtistImages", held |-> 2, wants |-> TRUE],
    [at |-> "getTrackArtists.getArtistImages.rows", held |-> 3, wants |-> FALSE],
    [at |-> "enrichTrackFromFiles", held |-> 1, wants |-> FALSE] >>

Positions == Range(PositionList)

\* No call is under way.
NoPool == [ at \in { p.at : p \in Positions } |-> 0 ]

Init ==
  /\ store \in Stores
  /\ database = "unopened"
  /\ ret = NoRet
  /\ hpc = "idle"
  /\ req = NoRequest
  /\ resp = EmptyResponse
  /\ ctxDone = FALSE
  /\ hlog = EmptyMap
  /\ call = NoCall
  /\ pool = NoPool

HandlerIdle == UNCHANGED << store, call, pool, database, hpc, req, resp, ctxDone, hlog >>

Outcome(err) == IF err THEN "error" ELSE "ok"

\* What a call that returned r leaves in ret.
Returned(op, ids, plans, r) ==
  [op |-> op, ids |-> ids, plans |-> plans, outcome |-> Outcome(r.err), val |-> r.val, q |-> r.q]

\* The same for BatchLookupISRCs, which may fault.
ReturnedOrFaulted(op, ids, plans, r) ==
  [op |-> op, ids |-> ids, plans |-> plans, outcome |-> r.outcome, val |-> r.result, q |-> r.q]

\* main: database, err := db.Open(*dbPath); an error ends the process.
OpenDatabase ==
  /\ database = "unopened"
  /\ LET Start(r) == database' = IF r.err = "nil" THEN r.db ELSE "exit"
     IN  Start(Open(store))
  /\ UNCHANGED << store, call, pool, ret, hpc, req, resp, ctxDone, hlog >>

\* The server has no request in hand.
Ready == database = "DB" /\ hpc = "idle" /\ ret = NoRet

\* The answer of a single-entity handler is sent.
Respond ==
  /\ hpc = "idle"
  /\ ret # NoRet
  /\ ret' = NoRet
  /\ HandlerIdle

\* ----------------------------------------- the resolver called on its own

CallLookupISRC ==
  /\ Ready
  /\ \E isrc \in IsrcIds, f \in FaultPlans :
       ret' = Returned("LookupISRC", << isrc >>, << f >>, LookupISRC(store, f, isrc))
  /\ HandlerIdle

CallLookupTrack ==
  /\ Ready
  /\ \E id \in TrackIds, f \in FaultPlans :
       ret' = Returned("LookupTrack", << id >>, << f >>, LookupTrack(store, f, id))
  /\ HandlerIdle

CallLookupArtist ==
  /\ Ready
  /\ \E id \in ArtistIds, f \in FaultPlans :
       /\ f.sub \subseteq {"artistGenres", "artistImages"} \/ f.cancel
       /\ ret' = Returned("LookupArtist", << id >>, << f >>, LookupArtist(store, f, id))
  /\ HandlerIdle

CallLookupAlbum ==
  /\ Ready
  /\ \E id \in AlbumIds, f \in FaultPlans :
       /\ f.sub \subseteq SubFetches \ {"trackArtists", "trackFiles"} \/ f.cancel
       /\ ret' = Returned("LookupAlbum", << id >>, << f >>, LookupAlbum(store, f, id))
  /\ HandlerIdle

CallGetAlbumTracks ==
  /\ Ready
  /\ \E id \in ReleaseIds, f \in FaultPlans :
       /\ f.sub \subseteq SubFetches \ {"albumImages", "albumArtists"} \/ f.cancel
       /\ ret' = Returned("GetAlbumTracks", << id >>, << f >>, GetAlbumTracks(store, f, id))
  /\ HandlerIdle

CallSearchTrack ==
  /\ Ready
  /\ \E query \in SearchQueries, limit \in SearchLimits, f \in SearchPlans :
       ret' = Returned("SearchTrack", << query >>, << f >>, SearchTrack(store, f, query, limit))
  /\ HandlerIdle

CallBatchLookupTracks ==
  /\ Ready
  /\ \E ids \in SeqsUpTo(TrackIds, MaxIds) :
       \E fs \in [1..Len(ids) -> LoopPlans] :
         ret' = Returned("BatchLookupTracks", ids, fs, BatchLookupTracks(store, fs, ids))
  /\ HandlerIdle

CallBatchLookupArtists ==
  /\ Ready
  /\ \E ids \in SeqsUpTo(ArtistIds, MaxIds) :
       \E fs \in [1..Len(ids) -> LoopPlans] :
         ret' = Returned("BatchLookupArtists", ids, fs, BatchLookupArtists(store, fs, ids))
  /\ HandlerIdle

CallBatchLookupAlbums ==
  /\ Ready
  /\ \E ids \in SeqsUpTo(AlbumIds, MaxIds) :
       \E fs \in [1..Len(ids) -> LoopPlans] :
         ret' = Returned("BatchLookupAlbums", ids, fs, BatchLookupAlbums(store, fs, ids))
  /\ HandlerIdle

CallBatchLookupISRCs ==
  /\ Ready
  /\ \E isrcs \in SeqsUpTo(IsrcIds, MaxIds), f \in FaultPlans :
       ret' = ReturnedOrFaulted("BatchLookupISRCs", isrcs, << f >>, BatchLookupISRCs(store, f, isrcs))
  /\ HandlerIdle

\* ------------------------------------------------------------ batchLookup

\* n times x.
Repeat(x, n) == [ i \in 1..n |-> x ]

\* Requests at the limit of the total and one item over it, in one category
\* and over two.
LargeRequests ==
  { [NoRequest EXCEPT !.ISRCs = Repeat("i1", MaxTotalItems)],
    [NoRequest EXCEPT !.ISRCs = Repeat("i1", MaxTotalItems + 1)],
    [NoRequest EXCEPT !.Tracks = << "t9" >>, !.ISRCs = Repeat("i1", MaxTotalItems - 1)],
    [NoRequest EXCEPT !.Tracks = << "t9" >>, !.ISRCs = Repeat("i1", MaxTotalItems)] }

\* The requests of the model.
Requests ==
  [ Tracks : { << >>, << "t1" >> }, Artists : { << >>, << "p1" >> },
    Albums : { << >>, << "a9" >> }, ISRCs : { << >>, << "i1" >>, << "i1", "i2" >> } ]
  \cup LargeRequests

\* The size check with "totalItems == 0" left out.
RejectsOverLimit(totalItems) == totalItems > MaxTotalItems

\* "Validate request limits": the request is answered with 400 Bad Request.
RejectsTotal(totalItems) == totalItems = 0 \/ totalItems > MaxTotalItems

\* The plans of the isrcs category: no fault, the joined query fails, the
\* release-performer fetch alone fails, the context is cancelled after the
\* joined query.
IsrcCategoryPlans ==
  { NoFault, PrimaryFault("issue"),
    [primary |-> "ok", sub |-> {"albumArtists"}, submode |-> "fail", cancel |-> FALSE],
    [primary |-> "ok", sub |-> SubFetches, submode |-> "fail", cancel |-> TRUE] }

\* The request is decoded and its size checked.
BatchLookupBegin ==
  /\ Ready
  /\ \E r \in Requests :
       LET totalItems == Len(r.Tracks) + Len(r.Artists) + Len(r.Albums) + Len(r.ISRCs)
       IN  /\ req' = r
           /\ hpc' = IF RejectsTotal(totalItems) THEN "rejected" ELSE "tracks"
  /\ UNCHANGED << store, call, pool, database, ret, resp, ctxDone, hlog >>

\* One per-id category: its ids, its label, its resolver and where it goes on.
LoopCategory(at, next, ids, label, Batch(_, _), Resp(_, _)) ==
  /\ hpc = at
  /\ hpc' = next
  /\ IF Len(ids) > 0
     THEN \E fs \in [1..Len(ids) -> HandlerPlans(ctxDone, LoopPlans)] :
            LET Done(r) ==
                  /\ resp' = [ Resp(resp, r.val) EXCEPT
                                 !.Errors = IF r.err THEN @ \cup {label} ELSE @ ]
                  /\ ctxDone' = (ctxDone \/ \E i \in 1..Len(ids) : fs[i].cancel)
                  /\ hlog' = MapPut(hlog, label, [plans |-> fs, q |-> r.q])
            IN  Done(Batch(fs, ids))
     ELSE UNCHANGED << resp, ctxDone, hlog >>
  /\ UNCHANGED << store, call, pool, database, ret, req >>

CategoryTracks ==
  LET Batch(fs, ids) == BatchLookupTracks(store, fs, ids)
      Resp(r, m) == [r EXCEPT !.Tracks = m]
  IN  LoopCategory("tracks", "artists", req.Tracks, "tracks", Batch, Resp)

CategoryArtists ==
  LET Batch(fs, ids) == BatchLookupArtists(store, fs, ids)
      Resp(r, m) == [r EXCEPT !.Artists = m]
  IN  LoopCategory("artists", "albums", req.Artists, "artists", Batch, Resp)

CategoryAlbums ==
  LET Batch(fs, ids) == BatchLookupAlbums(store, fs, ids)
      Resp(r, m) == [r EXCEPT !.Albums = m]
  IN  LoopCategory("albums", "isrcs", req.Albums, "albums", Batch, Resp)

\* A panic of BatchLookupISRCs unwinds batchLookup: no response is written.
CategoryISRCs ==
  /\ hpc = "isrcs"
  /\ IF Len(req.ISRCs) > 0
     THEN \E f \in HandlerPlans(ctxDone, IsrcCategoryPlans) :
            LET Done(r) ==
                  /\ hpc' = IF r.outcome = "panic" THEN "aborted" ELSE "write"
                  /\ resp' = IF r.outcome = "panic" THEN resp
                             ELSE [ resp EXCEPT
                                      !.ISRCs = r.result,
                                      !.Errors = IF r.outcome = "error" THEN @ \cup {"isrcs"}
                                                 ELSE @ ]
                  /\ ctxDone' = (ctxDone \/ f.cancel)
                  /\ hlog' = MapPut(hlog, "isrcs", [plans |-> << f >>, q |-> r.q])
            IN  Done(BatchLookupISRCs(store, f, req.ISRCs))
     ELSE /\ hpc' = "write"
          /\ UNCHANGED << resp, ctxDone, hlog >>
  /\ UNCHANGED << store, call, pool, database, ret, req >>

\* writeJSON(w, resp)
WriteResponse ==
  /\ hpc = "write"
  /\ hpc' = "done"
  /\ UNCHANGED << store, call, pool, database, ret, req, resp, ctxDone, hlog >>

\* batchLookup returns (also by http.Error or by the panic's unwinding).
BatchLookupEnd ==
  /\ hpc \in {"done", "rejected", "aborted"}
  /\ hpc' = "idle"
  /\ req' = NoRequest
  /\ resp' = EmptyResponse
  /\ ctxDone' = FALSE
  /\ hlog' = EmptyMap
  /\ UNCHANGED << store, call, pool, database, ret >>

\* -------------------------------------------------------- specification

Next ==
  \/ OpenDatabase
  \/ CallLookupISRC
  \/ CallLookupTrack
  \/ CallLookupArtist
  \/ CallLookupAlbum
  \/ CallGetAlbumTracks
  \/ CallSearchTrack
  \/ CallBatchLookupTracks
  \/ CallBatchLookupArtists
  \/ CallBatchLookupAlbums
  \/ CallBatchLookupISRCs
  \/ BatchLookupBegin
  \/ CategoryTracks
  \/ CategoryArtists
  \/ CategoryAlbums
  \/ CategoryISRCs
  \/ WriteResponse
  \/ BatchLookupEnd
  \/ Respond

Spec == Init /\ [][Next]_vars

\* ------------------------------------- one BatchLookupISRCs call, by steps
\* The call of db.go:492-647 followed statement by statement, made twice
\* with the same ids on the same store.  Other calls share the two pools.

\* The statements of the call in the order it issues them.
Statements == << "tracks" >> \o SubOrder

\* The stores and the fault plans of the calls followed by steps.
StepStores ==
  { st \in Stores :
      st.driver = [single |-> "tracks", batch |-> "tracks"] /\ st.files = "present" }

StepPlans ==
  { NoFault, PrimaryFault("issue"), PrimaryFault("scan"), PrimaryFault("iter") }
  \cup { [primary |-> "ok", sub |-> {n}, submode |-> m, cancel |-> FALSE] :
           n \in SubFetches, m \in {"fail", "iter"} }

\* The keys statement n is given.
AlbumRowIDs(c) == { c.trackInfos[i].a.rowid : i \in 1..Len(c.trackInfos) }

TrackIDsOf(c) == LET TrackID(ti) == ti.t.id IN MapSeq(c.trackInfos, TrackID)

\* A batched fetch returns at once, issuing nothing, when it has no key.
NoKeys(c, n) ==
  CASE n = "tracks" -> FALSE
    [] n \in {"albumImages", "albumArtists"} -> AlbumRowIDs(c) = {}
    [] n \in {"trackArtists", "trackFiles"} -> Len(c.trackInfos) = 0
    [] n \in {"artistGenres", "artistImages"} -> c.artistRowIDs = {}

\* QueryContext of statement n returns an error and no rows.
IssueFails(c, n) ==
  CASE n = "tracks" -> c.f.primary = "issue"
    [] n = "trackFiles" -> FilesMode(store, c.f) = "fail"
    [] OTHER -> SubMode(c.f, n) = "fail"

\* What the fetch of statement n returns to BatchLookupISRCs.
Fetch(c, n) ==
  CASE n = "albumImages" -> batchGetAlbumImages(store, c.f, AlbumRowIDs(c))
    [] n = "albumArtists" -> batchGetAlbumArtists(store, c.f, AlbumRowIDs(c))
    [] n = "trackArtists" -> batchGetTrackArtists(store, c.f, TrackIDsOf(c))
    [] n = "artistGenres" -> batchGetArtistGenres(store, c.f, c.artistRowIDs)
    [] n = "artistImages" -> batchGetArtistImages(store, c.f, c.artistRowIDs)
    [] n = "trackFiles" -> batchEnrichTrackFiles(store, c.f, TrackIDsOf(c))

\* The result sets still open when the read loop of statement n is left
\* with its deferred Close not yet run.
RowsKeptOpen(held, n) == held

\* The result sets still open when the read loop of statement n is over:
\* rows.Next() returning false closes the rows and gives the connection back.
RowsAfterLoop(held, n) == held \ {n}

\* Where the call stands after the fetch of statement k, with the track_files
\* fetch left running while the results are assembled.
AfterFetchUnjoined(k) ==
  CASE k = 4 -> [pc |-> "merge", k |-> 4]
    [] k >= 6 -> [pc |-> "assemble", k |-> k]
    [] OTHER -> [pc |-> "at", k |-> k + 1]

\* Where the call stands after the fetch of statement k has returned.
AfterFetch(k) ==
  CASE k = 4 -> [pc |-> "merge", k |-> 4]
    [] k = 7 -> [pc |-> "assemble", k |-> 7]
    [] OTHER -> [pc |-> "at", k |-> k + 1]

\* artists[j].Genres = append(artists[j].Genres, ...), the same for Images.
HydrateAppending(a, artistGenres, artistImages) ==
  [ a EXCEPT !.Genres = @ \o MapGet(artistGenres, a.rowid, << >>),
             !.Images = @ \o MapGet(artistImages, a.rowid, << >>) ]

\* artists[j].Genres = artistGenres[artists[j].rowid], the same for Images:
\* the entry of the lookup map is written in place.
HydrateInPlace(a, artistGenres, artistImages) ==
  [ a EXCEPT !.Genres = MapGet(artistGenres, a.rowid, << >>),
             !.Images = MapGet(artistImages, a.rowid, << >>) ]

\* The entry of key in the fetched map m with its artists hydrated in place.
HydratedEntry(c, m, key) ==
  LET Hydrate(a) == HydrateInPlace(a, c.fetched.artistGenres.val, c.fetched.artistImages.val)
  IN  IF key \in DOMAIN m.val THEN [m EXCEPT !.val[key] = MapSeq(@, Hydrate)] ELSE m

\* The track of trackInfos[i] as the loop body of the assembly leaves it,
\* given the maps of album artists and track artists after their hydration.
AssembledTrack(c, ti, albumArtists, trackArtists) ==
  LET Attach(m, key) == IF key \in DOMAIN m.val THEN toArtists(m.val[key]) ELSE << >>
      Track ==
        [ ScanTrack(ti.t) EXCEPT
            !.Album = << [ ID |-> ti.a.id, Name |-> ti.a.name,
                           Images |-> MapGet(c.fetched.albumImages.val, ti.a.rowid, << >>),
                           Artists |-> Attach(albumArtists, ti.a.rowid) ] >>,
            !.Artists = Attach(trackArtists, ti.t.id) ]
      Enrich(t, tf) == [ t EXCEPT !.HasLyrics = tf.HasLyrics,
                                  !.OriginalTitle = tf.OriginalTitle,
                                  !.VersionTitle = tf.VersionTitle,
                                  !.Languages = tf.Languages,
                                  !.ArtistRoles = tf.ArtistRoles ]
  IN  IF ti.t.id \in DOMAIN c.fetched.trackFiles.val
      THEN Enrich(Track, c.fetched.trackFiles.val[ti.t.id])
      ELSE Track

StepFrame == UNCHANGED << store, database, ret, hpc, req, resp, ctxDone, hlog, pool >>

\* The call returns: its deferred Close gives back what it still holds.
Leave(c, outcome, result) ==
  [c EXCEPT !.pc = "return", !.outcome = outcome, !.result = result, !.held = {}]

\* BatchLookupISRCs is entered: the first time with any ids under any plan,
\* the second time with the same.
StepBegin ==
  /\ call.pc = "idle" /\ call.run < 2
  /\ \E isrcs \in SeqsUpTo(IsrcIds, MaxIds), f \in StepPlans :
       /\ call.run = 1 => (isrcs = call.isrcs /\ f = call.f)
       /\ LET Enter(c) == IF Len(isrcs) = 0 THEN Leave(c, "ok", EmptyMap)
                          ELSE [c EXCEPT !.pc = "at", !.k = 1]
          IN  call' = Enter([NoCall EXCEPT !.run = call.run + 1, !.isrcs = isrcs, !.f = f,
                                           !.exhausted = call.exhausted, !.first = call.first])
  /\ StepFrame

\* The call stands before statement k: without a key nothing is issued; a
\* statement that fails when issued leaves no result set; otherwise the
\* pool gives a connection, when it has one, and the result set is open.
StepIssue ==
  /\ call.pc = "at"
  /\ LET n == Statements[call.k]
         Go(c, to) == [c EXCEPT !.pc = to.pc, !.k = to.k]
         Got(c) == [c EXCEPT !.fetched[n] = Fetch(call, n), !.done = @ \cup {n}]
     IN  IF NoKeys(call, n) THEN call' = Go(Got(call), AfterFetch(call.k))
         ELSE /\ ~call.exhausted
              /\ IF IssueFails(call, n)
                 THEN call' = (IF n = "tracks" THEN Leave(call, "error", EmptyMap)
                               ELSE Go(Got(call), AfterFetch(call.k)))
                 ELSE call' = [call EXCEPT !.pc = "read", !.held = @ \cup {n}]
  /\ StepFrame

\* The read loop of statement k runs to its end, or to the failure of the
\* plan.
StepRead ==
  /\ call.pc = "read"
  /\ LET n == Statements[call.k]
         Go(c, to) == [c EXCEPT !.pc = to.pc, !.k = to.k, !.held = RowsAfterLoop(@, n)]
         Got(c) == [c EXCEPT !.fetched[n] = Fetch(call, n), !.done = @ \cup {n}]
         Tracks(rows) ==
           IF (call.f.primary = "scan" /\ rows # << >>) \/ call.f.primary = "iter"
             THEN Leave(call, "error", EmptyMap)
           ELSE IF rows = << >> THEN Leave(call, "ok", EmptyMap)
           ELSE Go([call EXCEPT !.trackInfos = rows], AfterFetch(call.k))
     IN  IF n = "tracks" THEN call' = Tracks(QueryBatchISRCs(store, call.isrcs))
         ELSE call' = Go(Got(call), AfterFetch(call.k))
  /\ StepFrame

\* "Merge artist rowids": a write to the nil map of a failed step 3 ends the
\* call.
StepMerge ==
  /\ call.pc = "merge"
  /\ IF call.fetched.albumArtists.nil /\ call.fetched.trackArtists.rowids # {}
     THEN call' = Leave(call, "panic", EmptyMap)
     ELSE call' = [call EXCEPT !.pc = "at", !.k = 5,
                               !.artistRowIDs = call.fetched.albumArtists.rowids
                                                \cup call.fetched.trackArtists.rowids]
  /\ StepFrame

\* One turn of the assembly loop: the entries of trackInfos[i] in the maps
\* of album artists and track artists are hydrated in place, the track is
\* appended under its ISRC.
StepAssemble ==
  /\ call.pc = "assemble"
  /\ LET ti == call.trackInfos[call.i + 1]
         Turn(albumArtists, trackArtists) ==
           LET Put(t) ==
                 [call EXCEPT !.fetched.albumArtists = albumArtists,
                              !.fetched.trackArtists = trackArtists,
                              !.i = @ + 1,
                              !.result = MapPut(@, t.ISRC, MapGet(@, t.ISRC, << >>) \o << t >>)]
               End(c) == IF c.i = Len(c.trackInfos) THEN Leave(c, "ok", c.result) ELSE c
           IN  End(Put(AssembledTrack(call, ti, albumArtists, trackArtists)))
     IN  call' = Turn(HydratedEntry(call, call.fetched.albumArtists, ti.a.rowid),
                      HydratedEntry(call, call.fetched.trackArtists, ti.t.id))
  /\ StepFrame

\* The caller has the outcome; it keeps that of the first call.
StepReturn ==
  /\ call.pc = "return"
  /\ call' = [call EXCEPT !.pc = IF call.run = 2 THEN "done" ELSE "idle",
                          !.first = IF call.run = 1
                                    THEN << [outcome |-> call.outcome, result |-> call.result] >>
                                    ELSE @]
  /\ StepFrame

\* While the call is about to ask for a connection, the other calls of the
\* process take every connection of the pools, or give them back.
StepOthers ==
  /\ call.pc = "at"
  /\ call' = [call EXCEPT !.exhausted = ~@]
  /\ StepFrame

InitSteps ==
  /\ store \in StepStores
  /\ database = "DB"
  /\ ret = NoRet
  /\ hpc = "idle"
  /\ req = NoRequest
  /\ resp = EmptyResponse
  /\ ctxDone = FALSE
  /\ hlog = EmptyMap
  /\ call = NoCall
  /\ pool = NoPool

NextSteps ==
  \/ StepBegin
  \/ StepIssue
  \/ StepRead
  \/ StepMerge
  \/ StepAssemble
  \/ StepReturn
  \/ StepOthers

SpecSteps == InitSteps /\ [][NextSteps]_vars

\* ------------------------------------- concurrent calls on the primary pool
\* net/http serves every request on a goroutine of its own; lookupTrack and
\* lookupISRC pass the request's context, which has no deadline.  The calls
\* are counted per position; all take their connections from d.main.

\* main.SetMaxOpenConns(8)
MaxOpenConns == 8

\* The calls under way at one time.
MaxCalls == 8

\* Where a call may stand next: a read loop goes on with one more row or
\* ends, as the store has it; "gone" is the return of the call.
Successors(at) ==
  CASE at = "QueryContext" -> {"rows"}
    [] at = "rows" -> {"getAlbumImages", "gone"}
    [] at = "getAlbumImages" -> {"getAlbumImages.rows"}
    [] at = "getAlbumImages.rows" -> {"getAlbumArtists"}
    [] at = "getAlbumArtists" -> {"getAlbumArtists.rows"}
    [] at = "getAlbumArtists.rows" -> {"getAlbumArtists.getArtistGenres", "getTrackArtists"}
    [] at = "getAlbumArtists.getArtistGenres" -> {"getAlbumArtists.getArtistGenres.rows"}
    [] at = "getAlbumArtists.getArtistGenres.rows" -> {"getAlbumArtists.getArtistImages"}
    [] at = "getAlbumArtists.getArtistImages" -> {"getAlbumArtists.getArtistImages.rows"}
    [] at = "getAlbumArtists.getArtistImages.rows" -> {"getAlbumArtists.rows"}
    [] at = "getTrackArtists" -> {"getTrackArtists.rows"}
    [] at = "getTrackArtists.rows" -> {"getTrackArtists.getArtistGenres", "enrichTrackFromFiles"}
    [] at = "getTrackArtists.getArtistGenres" -> {"getTrackArtists.getArtistGenres.rows"}
    [] at = "getTrackArtists.getArtistGenres.rows" -> {"getTrackArtists.getArtistImages"}
    [] at = "getTrackArtists.getArtistImages" -> {"getTrackArtists.getArtistImages.rows"}
    [] at = "getTrackArtists.getArtistImages.rows" -> {"getTrackArtists.rows"}
    [] at = "enrichTrackFromFiles" -> {"rows"}

\* The calls under way and the connections of d.main they hold together.
Calls(pl) ==
  LET n == [ i \in 1..Len(PositionList) |-> pl[PositionList[i].at] ]
  IN  SumOver(n, 1..Len(PositionList))

InUse(pl) ==
  LET n == [ i \in 1..Len(PositionList) |-> pl[PositionList[i].at] * PositionList[i].held ]
  IN  SumOver(n, 1..Len(PositionList))

\* One call goes from the position named p to the position named q.
Moved(pl, p, q) == [pl EXCEPT ![p] = @ - 1, ![q] = @ + 1]

PoolFrame == UNCHANGED << store, database, ret, hpc, req, resp, ctxDone, hlog, call >>

\* A request arrives and its handler calls LookupTrack, LookupISRC or
\* SearchTrack.
Arrive ==
  /\ Calls(pool) < MaxCalls
  /\ pool' = [pool EXCEPT !["QueryContext"] = @ + 1]
  /\ PoolFrame

\* A call that asks for a connection gets one, when the pool has opened
\* fewer than MaxOpenConns; otherwise it waits.
Acquire ==
  /\ InUse(pool) < MaxOpenConns
  /\ \E p \in Positions :
       /\ p.wants /\ pool[p.at] > 0
       /\ \E at \in Successors(p.at) : pool' = Moved(pool, p.at, at)
  /\ PoolFrame

\* A call goes on from a position where it asks for nothing: it reads one
\* more row, or its read loop is over and the result set closed.
Advance ==
  /\ \E p \in Positions :
       /\ ~p.wants /\ pool[p.at] > 0
       /\ \E at \in Successors(p.at) \ {"gone"} : pool' = Moved(pool, p.at, at)
  /\ PoolFrame

\* The outer result set has no more row: the call returns and its deferred
\* Close gives the connection back.
Return ==
  /\ pool["rows"] > 0
  /\ pool' = [pool EXCEPT !["rows"] = @ - 1]
  /\ PoolFrame

InitPool ==
  /\ store = CHOOSE st \in StepStores : st.track_artists # << >>
  /\ database = "DB"
  /\ ret = NoRet
  /\ hpc = "idle"
  /\ req = NoRequest
  /\ resp = EmptyResponse
  /\ ctxDone = FALSE
  /\ hlog = EmptyMap
  /\ call = NoCall
  /\ pool = NoPool

NextPool ==
  \/ Arrive
  \/ Acquire
  \/ Advance
  \/ Return

SpecPool == InitPool /\ [][NextPool]_vars

\* ------------------------------------------------------------ properties
\* The records in the value an operation returned.

MapValues(m) == { m[k] : k \in DOMAIN m }

\* The recordings of a returned value.
TracksOf(op, val) ==
  CASE op \in {"LookupISRC", "LookupTrack", "GetAlbumTracks", "SearchTrack"} -> Range(val)
    [] op = "BatchLookupTracks" -> MapValues(val)
    [] op = "BatchLookupISRCs" -> UNION { Range(l) : l \in MapValues(val) }
    [] OTHER -> {}

\* Its releases: those of its recordings and those returned themselves.
AlbumsOf(op, val) ==
  { t.Album[1] : t \in { u \in TracksOf(op, val) : u.Album # << >> } }
  \cup (CASE op = "LookupAlbum" -> Range(val)
          [] op = "BatchLookupAlbums" -> MapValues(val)
          [] OTHER -> {})

\* Its performers: those of its recordings, of its releases and those
\* returned themselves.
ArtistsOf(op, val) ==
  UNION { Range(t.Artists) : t \in TracksOf(op, val) }
  \cup UNION { Range(a.Artists) : a \in AlbumsOf(op, val) }
  \cup (CASE op = "LookupArtist" -> Range(val)
          [] op = "BatchLookupArtists" -> MapValues(val)
          [] OTHER -> {})

\* The rows the primary query of op yields for id when it does not fail.
PrimaryRows(op, ids, i) ==
  CASE op = "LookupISRC" -> QueryISRC(store, ids[i])
    [] op \in {"LookupTrack", "BatchLookupTracks"} -> QueryTrack(store, ids[i])
    [] op \in {"LookupArtist", "BatchLookupArtists"} -> QueryArtist(store, ids[i])
    [] op \in {"LookupAlbum", "BatchLookupAlbums"} -> QueryAlbum(store, ids[i])
    [] op = "GetAlbumTracks" -> QueryAlbumTracks(store, ids[i])
    [] op = "SearchTrack" -> QuerySearchTrack(store, ids[i], 20)
    [] op = "BatchLookupISRCs" -> QueryBatchISRCs(store, ids)

\* The primary query fails under plan f: when it is issued, while the result
\* set is advanced, or while a row (there must be one) is scanned.
PrimaryFails(f, rows) ==
  f.primary \in {"issue", "iter"} \/ (f.primary = "scan" /\ rows # << >>)

\* The rowid of the row of a table that has the public id.
RowIDOf(table, id) == table[CHOOSE i \in 1..Len(table) : table[i].id = id].rowid

\* The recording with its own performers in the order of the artists table.
ByArtist(t) ==
  LET Before(x, y) == RowIDOf(store.artists, x.ID) < RowIDOf(store.artists, y.ID)
  IN  [t EXCEPT !.Artists = SortBy(@, Before)]

C2_SubFetchFailuresKeepCallRunning ==
  ( /\ ret.op = "BatchLookupISRCs"
    /\ ret.plans[1].primary = "ok"
    /\ PrimaryRows(ret.op, ret.ids, 1) # << >> ) =>
    ret.outcome = "ok"

\* C3: BatchLookupISRCs returns a non-nil error exactly when its step-1
\* query fails; the failure of a later step never makes it return one.
C3_ErrorIffStepOneFails ==
  ret.op = "BatchLookupISRCs" =>
    ( ret.outcome = "error" <=>
        (Len(ret.ids) > 0 /\ PrimaryFails(ret.plans[1], PrimaryRows(ret.op, ret.ids, 1))) )

\* Every fetch after step 1 fails and the call returns recordings, no error.
C3_Witness ==
  /\ ret.op = "BatchLookupISRCs"
  /\ ret.plans[1].primary = "ok" /\ ret.plans[1].sub = SubFetches /\ ~ret.plans[1].cancel
  /\ ret.outcome = "ok"
  /\ DOMAIN ret.val # {}

\* C4: one BatchLookupISRCs call issues at most 7 queries, however many ids
\* are requested and however many recordings, releases and performers match.
C4_AtMostSevenQueries ==
  /\ ret.op = "BatchLookupISRCs" => ret.q <= 7
  /\ "isrcs" \in DOMAIN hlog => hlog["isrcs"].q <= 7

\* A call for two ids that finds recordings for both and issues 7 queries.
C4_Witness ==
  /\ ret.op = "BatchLookupISRCs"
  /\ Len(ret.ids) = 2
  /\ Cardinality(DOMAIN ret.val) = 2
  /\ Cardinality(ArtistsOf(ret.op, ret.val)) >= 2
  /\ ret.q = 7

\* What a category of the request resolves to on its own under the plans it
\* ran with, and what the response holds for it.
Standalone(label) ==
  CASE label = "tracks"  -> BatchLookupTracks(store, hlog[label].plans, req.Tracks).val
    [] label = "artists" -> BatchLookupArtists(store, hlog[label].plans, req.Artists).val
    [] label = "albums"  -> BatchLookupAlbums(store, hlog[label].plans, req.Albums).val
    [] label = "isrcs"   -> BatchLookupISRCs(store, hlog[label].plans[1], req.ISRCs).result

InResponse(label) ==
  CASE label = "tracks"  -> resp.Tracks
    [] label = "artists" -> resp.Artists
    [] label = "albums"  -> resp.Albums
    [] label = "isrcs"   -> resp.ISRCs

\* C5: when batchLookup ends, every category whose resolution completed is
\* in the response that is written, resolved as if requested alone, whatever
\* happened to the other categories.
C5_CategoriesResolvedAlone ==
  hpc \in {"done", "aborted"} =>
    \A label \in DOMAIN hlog \ (IF hpc = "aborted" THEN {"isrcs"} ELSE {}) :
      hpc = "done" /\ InResponse(label) = Standalone(label)

\* C6: when batchLookup writes its response, every category whose primary
\* query failed has an entry under its label in the response's errors.
C6_PrimaryFailureInErrors ==
  hpc \in {"write", "done"} =>
    \A label \in DOMAIN hlog :
      (\E i \in DOMAIN hlog[label].plans : hlog[label].plans[i].primary # "ok")
        => label \in resp.Errors

\* The last query an operation issues for an entity it has found.
LastFetch(op) ==
  CASE op \in {"LookupArtist", "BatchLookupArtists"} -> "artistImages"
    [] op \in {"LookupAlbum", "BatchLookupAlbums"} -> "albumArtists"
    [] OTHER -> "trackFiles"

\* The context of the call r was cancelled while the call had a query to
\* run: at its primary query, or later with an entity found and its last
\* fetch not yet issued.
CancelledMidCall(r) ==
  \E i \in DOMAIN r.plans :
    /\ r.plans[i].cancel
    /\ \/ r.plans[i].primary # "ok"
       \/ PrimaryRows(r.op, r.ids, i) # << >> /\ LastFetch(r.op) \in r.plans[i].sub

\* C7: a call whose context is cancelled while it still has queries to run
\* returns a non-nil error.
C7_CancellationIsAnError ==
  (ret.op # "none" /\ CancelledMidCall(ret)) => ret.outcome = "error"

\* C8: LookupTrack, LookupArtist and LookupAlbum return not-found (nil, nil)
\* exactly when the store holds no entity of the id, and a non-nil error
\* whenever the primary query fails, also while advancing to the first row.
C8_NotFoundIffAbsent ==
  ret.op \in {"LookupTrack", "LookupArtist", "LookupAlbum"} =>
    LET Holds(failed, absent) ==
          /\ failed => ret.outcome = "error"
          /\ (ret.outcome = "ok" /\ ret.val = << >>) <=> (absent /\ ~failed)
    IN  Holds(PrimaryFails(ret.plans[1], PrimaryRows(ret.op, ret.ids, 1)),
              PrimaryRows(ret.op, ret.ids, 1) = << >>)

\* The non-null indexes of the rows that associate the performer and the
\* release in the store.
IndexesOn(artistRowID, albumRowID) ==
  { store.artist_albums[i].index_in_album : i \in
      { j \in 1..Len(store.artist_albums) :
          /\ store.artist_albums[j].artist_rowid = artistRowID
          /\ store.artist_albums[j].album_rowid = albumRowID
          /\ store.artist_albums[j].index_in_album # NullInt } }

\* The performer list of a returned release is what the store says.
PerformersRight(album) ==
  LET alb == RowIDOf(store.albums, album.ID)
      Key(p) == RowIDOf(store.artists, p.ID)
      l == MapSeq(album.Artists, Key)
  IN  /\ \A i, j \in 1..Len(l) : i # j => l[i] # l[j]
      /\ Range(l) = { store.artists[i].rowid : i \in
                        { j \in 1..Len(store.artists) :
                            IndexesOn(store.artists[j].rowid, alb) # {} } }
      /\ \A i, j \in 1..Len(l) :
           i < j => Min(IndexesOn(l[i], alb)) <= Min(IndexesOn(l[j], alb))

\* C9: when the release-performer fetch does not fail, the performer list of
\* every returned release holds each performer once, holds exactly the
\* performers with a non-null index on the release, and is in ascending
\* order of the smallest such index; this on the single-entity and on the
\* batch path.
C9_ReleasePerformers ==
  (\A i \in DOMAIN ret.plans : "albumArtists" \notin ret.plans[i].sub) =>
    \A album \in AlbumsOf(ret.op, ret.val) : PerformersRight(album)

\* A batch call returns a release with two performers in index order, one of
\* them with two rows, beside a performer left out for its null index.
C9_Witness ==
  /\ ret.op = "BatchLookupISRCs" /\ ret.plans = << NoFault >>
  /\ \E album \in AlbumsOf(ret.op, ret.val) :
       /\ Len(album.Artists) >= 2
       /\ \E i \in 1..Len(store.artist_albums) :
            /\ store.artist_albums[i].album_rowid = RowIDOf(store.albums, album.ID)
            /\ store.artist_albums[i].index_in_album = NullInt
            /\ \A k \in 1..Len(album.Artists) :
                 RowIDOf(store.artists, album.Artists[k].ID)
                   # store.artist_albums[i].artist_rowid
       /\ \E k \in 1..Len(album.Artists) :
            Cardinality(IndexesOn(RowIDOf(store.artists, album.Artists[k].ID),
                                  RowIDOf(store.albums, album.ID))) >= 2

NonIncreasingWidth(images) ==
  \A i, j \in 1..Len(images) : i < j => images[i].Width >= images[j].Width

ImagesOrdered(op, val) ==
  /\ \A album \in AlbumsOf(op, val) : NonIncreasingWidth(album.Images)
  /\ \A artist \in ArtistsOf(op, val) : NonIncreasingWidth(artist.Images)

\* C10: in every record an operation returns, also under faults, and in
\* every record of a batchLookup response, the images of a release and of a
\* performer are in non-increasing order of width.
C10_ImagesByWidth ==
  /\ ImagesOrdered(ret.op, ret.val)
  /\ ImagesOrdered("BatchLookupTracks", resp.Tracks)
  /\ ImagesOrdered("BatchLookupArtists", resp.Artists)
  /\ ImagesOrdered("BatchLookupAlbums", resp.Albums)
  /\ ImagesOrdered("BatchLookupISRCs", resp.ISRCs)

\* A recording is returned whose release has three images of falling width
\* and a performer with three images, stored in another order.
C10_Witness ==
  /\ ret.op = "LookupISRC"
  /\ \E album \in AlbumsOf(ret.op, ret.val) :
       Len(album.Images) >= 3 /\ album.Images[1].Width > album.Images[3].Width
  /\ \E artist \in ArtistsOf(ret.op, ret.val) :
       Len(artist.Images) >= 3 /\ artist.Images[1].Width > artist.Images[3].Width

NoRepeatedImage(images) ==
  \A i, j \in 1..Len(images) : i # j => images[i] # images[j]

ImagesDistinct(op, val) ==
  /\ \A album \in AlbumsOf(op, val) : NoRepeatedImage(album.Images)
  /\ \A artist \in ArtistsOf(op, val) : NoRepeatedImage(artist.Images)

\* C11: in every record an operation returns and in every record of a
\* batchLookup response, no image list of a release or of a performer holds
\* two entries with the same url, width and height, also when the store holds
\* the image row twice.
C11_NoRepeatedImages ==
  /\ ImagesDistinct(ret.op, ret.val)
  /\ ImagesDistinct("BatchLookupTracks", resp.Tracks)
  /\ ImagesDistinct("BatchLookupArtists", resp.Artists)
  /\ ImagesDistinct("BatchLookupAlbums", resp.Albums)
  /\ ImagesDistinct("BatchLookupISRCs", resp.ISRCs)

\* Every annotation field of the recording is at its default.
DefaultAnnotation(t) ==
  /\ t.HasLyrics = "unknown"
  /\ t.OriginalTitle = "" /\ t.VersionTitle = ""
  /\ t.Languages = << >> /\ t.ArtistRoles = << >>

\* The recording with its annotation fields at their defaults.
WithoutAnnotation(t) ==
  [t EXCEPT !.HasLyrics = "unknown", !.OriginalTitle = "", !.VersionTitle = "",
            !.Languages = << >>, !.ArtistRoles = << >>]

\* The statements on the secondary store fail or the store is absent, and no
\* other query of the call fails.
OnlySecondaryFails(f) ==
  /\ f.primary = "ok"
  /\ \/ f.sub = {"trackFiles"}
     \/ f.sub = {} /\ store.files = "absent"

\* C12: when every query on the secondary store fails (and no other),
\* BatchLookupISRCs returns a nil error and the recordings it returns when
\* the secondary store is reachable, each with the same fields from the
\* primary store and with every annotation field at its default.
C12_SecondaryFailureKeepsBaseRecords ==
  (ret.op = "BatchLookupISRCs" /\ OnlySecondaryFails(ret.plans[1])) =>
    LET Same(reachable) ==
          /\ ret.outcome = "ok"
          /\ ret.val = [ k \in DOMAIN reachable.result |->
                           MapSeq(reachable.result[k], WithoutAnnotation) ]
    IN  Same(BatchLookupISRCs([store EXCEPT !.files = "present"], NoFault, ret.ids))

\* C13: Open returns a handle and no error whether or not the secondary
\* store is present; with the secondary store absent, LookupTrack, LookupISRC
\* and GetAlbumTracks return without error every recording their primary
\* query yields, when that query does not fail, and every recording they
\* return has all its annotation fields at their defaults.
C13_OpenAndResolveWithoutSecondary ==
  /\ database # "unopened" => database = "DB"
  /\ (store.files = "absent" /\ ret.op \in {"LookupTrack", "LookupISRC", "GetAlbumTracks"}) =>
       /\ ~PrimaryFails(ret.plans[1], PrimaryRows(ret.op, ret.ids, 1)) =>
            /\ ret.outcome = "ok"
            /\ Len(ret.val) = Len(PrimaryRows(ret.op, ret.ids, 1))
       /\ \A t \in TracksOf(ret.op, ret.val) : DefaultAnnotation(t)

\* The secondary store is absent, Open has returned the handle and LookupISRC
\* returns a recording for which track_files would hold a row with lyrics.
C13_Witness ==
  /\ database = "DB" /\ store.files = "absent"
  /\ ret.op = "LookupISRC" /\ ret.plans = << NoFault >> /\ ret.outcome = "ok"
  /\ \E t \in Range(ret.val) : \E i \in 1..Len(store.track_files) :
       store.track_files[i].track_id = t.ID /\ store.track_files[i].has_lyrics = 1

BatchOps ==
  { "BatchLookupTracks", "BatchLookupArtists", "BatchLookupAlbums", "BatchLookupISRCs" }

TotalItems(r) == Len(r.Tracks) + Len(r.Artists) + Len(r.Albums) + Len(r.ISRCs)

\* A batch resolver called with no id returns an empty map and a nil error
\* and issues no query.
EmptyListNoQuery ==
  (ret.op \in BatchOps /\ ret.ids = << >>) =>
    ret.outcome = "ok" /\ ret.val = EmptyMap /\ ret.q = 0

\* C14: each of BatchLookupTracks, BatchLookupArtists, BatchLookupAlbums and
\* BatchLookupISRCs called with an empty id list returns an empty map with a
\* nil error and issues no query, and batchLookup answers a request whose id
\* lists are all empty (it does not reject it).
C14_EmptyRequestAnswered ==
  /\ EmptyListNoQuery
  /\ (hpc # "idle" /\ TotalItems(req) = 0) => hpc # "rejected"

\* C14, amended: the same of the four resolvers; batchLookup rejects a
\* request whose id lists are all empty, with no query issued and no map
\* built, and in a request it processes it resolves no category whose id
\* list is empty.
C14_EmptyListsIssueNoQuery ==
  /\ EmptyListNoQuery
  /\ (hpc # "idle" /\ TotalItems(req) = 0) =>
       hpc = "rejected" /\ hlog = EmptyMap /\ resp = EmptyResponse
  /\ ("tracks" \in DOMAIN hlog => req.Tracks # << >>)
  /\ ("artists" \in DOMAIN hlog => req.Artists # << >>)
  /\ ("albums" \in DOMAIN hlog => req.Albums # << >>)
  /\ ("isrcs" \in DOMAIN hlog => req.ISRCs # << >>)

\* BatchLookupISRCs is called with no id while its first query would fail,
\* and returns an empty map.
C14_Witness ==
  /\ ret.op = "BatchLookupISRCs" /\ ret.ids = << >>
  /\ ret.plans[1].primary = "issue"
  /\ ret.outcome = "ok" /\ ret.val = EmptyMap

\* The public ids of the recordings of the store that bear the external
\* identifier and have a release.
RecordingsBearing(isrc) ==
  { store.tracks[i].id : i \in
      { j \in 1..Len(store.tracks) :
          /\ store.tracks[j].isrc # NullStr /\ store.tracks[j].isrc = isrc
          /\ \E a \in 1..Len(store.albums) :
               store.albums[a].rowid = store.tracks[j].album_rowid } }

\* C15: the map BatchLookupISRCs returns has only requested external
\* identifiers as keys, a key for every requested identifier that a
\* recording with a release bears, and under a key every such recording
\* once and no other recording; so for every store and id list, with
\* repeated ids too.
C15_EveryRecordingOnceUnderItsId ==
  (ret.op = "BatchLookupISRCs" /\ ret.outcome = "ok") =>
    /\ DOMAIN ret.val \subseteq Range(ret.ids)
    /\ \A k \in Range(ret.ids) :
         IF RecordingsBearing(k) = {} THEN k \notin DOMAIN ret.val
         ELSE /\ k \in DOMAIN ret.val
              /\ Len(ret.val[k]) = Cardinality(RecordingsBearing(k))
              /\ { ret.val[k][i].ID : i \in 1..Len(ret.val[k]) } = RecordingsBearing(k)
              /\ \A i \in 1..Len(ret.val[k]) : ret.val[k][i].ISRC = k

\* An identifier requested twice that two recordings bear, beside a
\* recording of another identifier that has no release.
C15_Witness ==
  /\ ret.op = "BatchLookupISRCs" /\ ret.outcome = "ok"
  /\ Len(ret.ids) = 2 /\ ret.ids[1] = ret.ids[2]
  /\ ret.ids[1] \in DOMAIN ret.val /\ Len(ret.val[ret.ids[1]]) = 2
  /\ \E i \in 1..Len(store.tracks) :
       \A a \in 1..Len(store.albums) : store.albums[a].rowid # store.tracks[i].album_rowid

ByPopularity(l) ==
  \A i, j \in 1..Len(l) : i < j => l[i].Popularity >= l[j].Popularity

\* C16: the list LookupISRC returns, every list of the map BatchLookupISRCs
\* returns and every list under isrcs in a batchLookup response is in
\* non-increasing order of the recordings' popularity.
C16_ListsByPopularity ==
  /\ ret.op = "LookupISRC" => ByPopularity(ret.val)
  /\ ret.op = "BatchLookupISRCs" => \A k \in DOMAIN ret.val : ByPopularity(ret.val[k])
  /\ \A k \in DOMAIN resp.ISRCs : ByPopularity(resp.ISRCs[k])

\* LookupISRC returns two recordings, the more popular first, that the store
\* holds in the other order.
C16_Witness ==
  /\ ret.op = "LookupISRC" /\ Len(ret.val) = 2
  /\ ret.val[1].Popularity > ret.val[2].Popularity
  /\ \E i, j \in 1..Len(store.tracks) :
       i < j /\ store.tracks[i].id = ret.val[2].ID /\ store.tracks[j].id = ret.val[1].ID

\* The public ids of the recordings of the release.
RecordingsOfRelease(albumID) ==
  { store.tracks[i].id : i \in
      { j \in 1..Len(store.tracks) :
          \E a \in 1..Len(store.albums) :
            /\ store.albums[a].rowid = store.tracks[j].album_rowid
            /\ store.albums[a].id = albumID } }

DiscThenTrack(l) ==
  \A i, j \in 1..Len(l) :
    i < j => \/ l[i].DiscNum < l[j].DiscNum
             \/ l[i].DiscNum = l[j].DiscNum /\ l[i].TrackNum <= l[j].TrackNum

\* C17: GetAlbumTracks returns, when it returns no error, the recordings of
\* the release, each once and no other, in ascending order of disc number
\* and, on a disc, of track number.
C17_ReleaseRecordingsInOrder ==
  ret.op = "GetAlbumTracks" =>
    /\ DiscThenTrack(ret.val)
    /\ ret.outcome = "ok" =>
         /\ Len(ret.val) = Cardinality(RecordingsOfRelease(ret.ids[1]))
         /\ { ret.val[i].ID : i \in 1..Len(ret.val) } = RecordingsOfRelease(ret.ids[1])

\* Two recordings of a release are returned, the one of disc 1 before the
\* one of disc 2 though its track number is the higher one.
C17_Witness ==
  /\ ret.op = "GetAlbumTracks" /\ ret.outcome = "ok" /\ Len(ret.val) = 2
  /\ ret.val[1].DiscNum < ret.val[2].DiscNum
  /\ ret.val[1].TrackNum > ret.val[2].TrackNum

AnnotationRows(id) ==
  LET Match(r) == r.track_id = id IN SelectSeq(store.track_files, Match)

\* The annotation of the call is read: the secondary store is there and no
\* statement on it fails.
AnnotationRead(r) ==
  /\ store.files = "present"
  /\ \A i \in DOMAIN r.plans : "trackFiles" \notin r.plans[i].sub

\* The lyrics-presence the store gives the recording.
StoredLyrics(rows) ==
  IF rows = << >> \/ rows[1].has_lyrics = NullInt THEN "unknown"
  ELSE IF rows[1].has_lyrics = 1 THEN "true" ELSE "false"

\* C19: when the annotation is read, every recording an operation returns,
\* on the single-entity and on the batch path, has lyrics-presence unknown
\* when it has no annotation row or the row's flag is null, true when the
\* flag is 1 and false for every other flag; a recording without an
\* annotation row has every annotation field at its default.
C19_LyricsThreeWay ==
  AnnotationRead(ret) =>
    \A t \in TracksOf(ret.op, ret.val) :
      /\ t.HasLyrics = StoredLyrics(AnnotationRows(t.ID))
      /\ AnnotationRows(t.ID) = << >> => DefaultAnnotation(t)

\* A batch call returns a recording with lyrics, one without, and one whose
\* annotation row has a null flag.
C19_Witness ==
  /\ ret.op = "BatchLookupISRCs" /\ AnnotationRead(ret)
  /\ \E t \in TracksOf(ret.op, ret.val) : t.HasLyrics = "true"
  /\ \E t \in TracksOf(ret.op, ret.val) : t.HasLyrics = "false"
  /\ \E t \in TracksOf(ret.op, ret.val) :
       t.HasLyrics = "unknown" /\ AnnotationRows(t.ID) # << >>

\* The list decoded from the payload of a nullable column is as C20 says.
ListAsParsed(column, list) ==
  (Str(column) # "" /\ jsonUnmarshalErr(Str(column))) => list = << >>

\* C20: when the annotation is read, a recording whose annotation row has a
\* language or role payload that fails to parse is returned (the call
\* returns no error for it) with an empty list for that field and with its
\* titles and lyrics-presence set from the row.
C20_ParseFailureYieldsEmptyList ==
  AnnotationRead(ret) =>
    \A t \in TracksOf(ret.op, ret.val) :
      LET Tolerated(rows) ==
            rows # << >> =>
              /\ ListAsParsed(rows[1].language_of_performance, t.Languages)
              /\ ListAsParsed(rows[1].artist_roles, t.ArtistRoles)
              /\ t.OriginalTitle = Str(rows[1].original_title)
              /\ t.VersionTitle = Str(rows[1].version_title)
              /\ t.HasLyrics = StoredLyrics(rows)
      IN  Tolerated(AnnotationRows(t.ID))

\* The sub-relation the secondary fetch k fills is empty everywhere in the
\* value op returned.
SubRelationEmpty(k, op, val) ==
  CASE k = "albumImages" -> \A a \in AlbumsOf(op, val) : a.Images = << >>
    [] k = "albumArtists" -> \A a \in AlbumsOf(op, val) : a.Artists = << >>
    [] k = "trackArtists" -> \A t \in TracksOf(op, val) : t.Artists = << >>
    [] k = "artistGenres" -> \A p \in ArtistsOf(op, val) : p.Genres = << >>
    [] k = "artistImages" -> \A p \in ArtistsOf(op, val) : p.Images = << >>
    [] k = "trackFiles" -> \A t \in TracksOf(op, val) : DefaultAnnotation(t)

\* The secondary fetches that fail under plan f on the store.
FailedSubFetches(f) ==
  f.sub \cup (IF store.files = "absent" THEN {"trackFiles"} ELSE {})

\* C23: when BatchLookupISRCs returns its map, every secondary fetch that
\* failed, at issue or part-way through its rows, has left its sub-relation
\* empty for every recording, release and performer of the map.
C23_FailedSubFetchIsEmpty ==
  (ret.op = "BatchLookupISRCs" /\ ret.outcome = "ok") =>
    \A k \in FailedSubFetches(ret.plans[1]) : SubRelationEmpty(k, ret.op, ret.val)

\* The operations of the per-id batch loop.
LoopOps == { "BatchLookupTracks", "BatchLookupArtists", "BatchLookupAlbums" }

\* What the single-entity resolver of a per-id batch operation returns for
\* id under plan f.
SingleLookup(op, f, id) ==
  CASE op = "BatchLookupTracks" -> LookupTrack(store, f, id)
    [] op = "BatchLookupArtists" -> LookupArtist(store, f, id)
    [] op = "BatchLookupAlbums" -> LookupAlbum(store, f, id)

\* C24: BatchLookupTracks, BatchLookupArtists and BatchLookupAlbums return a
\* nil error and a map whose keys are exactly the requested ids for which
\* some lookup of the single-entity resolver returned a record without
\* error; the value is the record of the last such lookup in request order,
\* whatever the lookups of the other ids did.
C24_PerIdLoopKeepsEachFound ==
  ret.op \in LoopOps =>
    LET Found(r) == ~r.err /\ r.val # << >>
        Last(S) == CHOOSE i \in S : \A j \in S : j <= i
        Kept(single) ==
          /\ ret.outcome = "ok"
          /\ DOMAIN ret.val \subseteq Range(ret.ids)
          /\ \A id \in Range(ret.ids) :
               LET Hits == { i \in DOMAIN ret.ids : ret.ids[i] = id /\ Found(single[i]) }
               IN  IF Hits = {} THEN id \notin DOMAIN ret.val
                   ELSE id \in DOMAIN ret.val /\ ret.val[id] = single[Last(Hits)].val[1]
    IN  Kept([ i \in DOMAIN ret.ids |-> SingleLookup(ret.op, ret.plans[i], ret.ids[i]) ])

\* BatchLookupTracks is given two ids: the lookup of one fails, the other is
\* found and is the only key of the map.
C24_Witness ==
  /\ ret.op = "BatchLookupTracks" /\ Len(ret.ids) = 2
  /\ \E i, j \in 1..2 :
       /\ ret.plans[i].primary = "issue"
       /\ ret.plans[j] = NoFault
       /\ DOMAIN ret.val = { ret.ids[j] }
       /\ ret.ids[i] # ret.ids[j]

\* The single-entity operations C26 names.
SingleOps == { "LookupTrack", "LookupISRC", "LookupArtist", "LookupAlbum" }

\* C26: LookupTrack, LookupISRC, LookupArtist and LookupAlbum return an error
\* only when the primary query or the scan of its row fails; otherwise they
\* return every record of the primary query with a nil error, and every
\* secondary fetch that failed, at issue or part-way through its rows, has
\* left its sub-relation empty.
C26_SecondaryFailureLeavesEmpty ==
  ret.op \in SingleOps =>
    LET Degrades(f, rows) ==
          /\ ret.outcome = "error" => PrimaryFails(f, rows)
          /\ ~PrimaryFails(f, rows) =>
               /\ ret.outcome = "ok"
               /\ Len(ret.val) = Len(rows)
               /\ \A k \in FailedSubFetches(f) : SubRelationEmpty(k, ret.op, ret.val)
    IN  Degrades(ret.plans[1], PrimaryRows(ret.op, ret.ids, 1))

\* The operations that return recordings.
RecordingOps ==
  { "LookupTrack", "LookupISRC", "BatchLookupISRCs", "BatchLookupTracks", "GetAlbumTracks",
    "SearchTrack" }

\* No query of the call fails and the secondary store is there.
NothingFails(r) ==
  store.files = "present" /\ \A i \in DOMAIN r.plans : r.plans[i] = NoFault

\* The public ids of a list of performers, of the rows of a performers query.
PerformerIds(artists) == { artists[i].ID : i \in DOMAIN artists }
RowIds(rows) == { rows[i].id : i \in DOMAIN rows }

\* The recording has the performers and the annotation the store holds for
\* it.
CarriesOwn(t) ==
  /\ PerformerIds(t.Artists) = RowIds(QueryTrackArtists(store, t.ID))
  /\ t.HasLyrics = StoredLyrics(AnnotationRows(t.ID))
  /\ AnnotationRows(t.ID) # << >> =>
       /\ t.OriginalTitle = Str(AnnotationRows(t.ID)[1].original_title)
       /\ t.VersionTitle = Str(AnnotationRows(t.ID)[1].version_title)

\* The recording carries the release the store joins it with, with the
\* images and the performers the store holds for that release.
CarriesRelease(t) ==
  /\ t.Album # << >>
  /\ \E row \in Range(TracksJoinAlbums(store)) :
       /\ row.t.id = t.ID /\ row.a.id = t.Album[1].ID
       /\ Range(t.Album[1].Images) = Range(QueryAlbumImages(store, row.a.rowid))
       /\ PerformerIds(t.Album[1].Artists) = RowIds(QueryAlbumArtists(store, row.a.rowid))

\* C25 as stated: when nothing fails, every recording returned by LookupTrack,
\* LookupISRC, BatchLookupISRCs, BatchLookupTracks, GetAlbumTracks or
\* SearchTrack carries its release with the release's images and performers,
\* its own performers and its annotation.
C25_EveryRecordingCarriesRelease ==
  (ret.op \in RecordingOps /\ NothingFails(ret)) =>
    \A t \in TracksOf(ret.op, ret.val) : CarriesRelease(t) /\ CarriesOwn(t)

\* C25 amended: when nothing fails, every recording returned by LookupTrack,
\* LookupISRC, BatchLookupISRCs, BatchLookupTracks or SearchTrack carries its
\* release with the release's images and performers, its own performers and
\* its annotation; a recording returned by GetAlbumTracks carries its own
\* performers and its annotation and no release.
C25_ReleaseCarriedButByGetAlbumTracks ==
  (ret.op \in RecordingOps /\ NothingFails(ret)) =>
    \A t \in TracksOf(ret.op, ret.val) :
      /\ CarriesOwn(t)
      /\ IF ret.op = "GetAlbumTracks" THEN t.Album = << >> ELSE CarriesRelease(t)

\* GetAlbumTracks returns, with nothing failing, a recording with performers
\* whose release has images in the store.
C25_Witness ==
  /\ ret.op = "GetAlbumTracks" /\ NothingFails(ret) /\ ret.outcome = "ok"
  /\ \E t \in Range(ret.val) :
       /\ t.Artists # << >>
       /\ \E row \in Range(TracksJoinAlbums(store)) :
            row.t.id = t.ID /\ QueryAlbumImages(store, row.a.rowid) # << >>

\* The outcome of the second call is that of the first.
SameTwice ==
  call.pc = "done" => call.first = << [outcome |-> call.outcome, result |-> call.result] >>

\* In the map a call returns, the recordings of one release carry the same
\* release and a performer is the same record wherever it stands.
SharedAlike ==
  (call.pc \in {"return", "done"} /\ call.outcome = "ok") =>
    /\ \A t, u \in TracksOf("BatchLookupISRCs", call.result) :
         t.Album[1].ID = u.Album[1].ID => t.Album = u.Album
    /\ \A p, q \in ArtistsOf("BatchLookupISRCs", call.result) : p.ID = q.ID => p = q

AsFetched(c) ==
  LET Bare(a) == [a EXCEPT !.Genres = << >>, !.Images = << >>]
      BareMap(m) == [ key \in DOMAIN m |-> MapSeq(m[key], Bare) ]
  IN  [ n \in SubFetches |->
          IF n \in {"albumArtists", "trackArtists"} THEN BareMap(c.fetched[n].val)
          ELSE c.fetched[n].val ]

\* C22: while BatchLookupISRCs assembles its result, each of the six
\* sub-fetches has returned and no result set is open; no step taken during
\* the assembly changes what the fetches put in the lookup maps.
C22_AssemblyAfterAllFetches ==
  /\ [](call.pc = "assemble" => (call.done = SubFetches /\ call.held = {}))
  /\ [][call.pc = "assemble" => AsFetched(call') = AsFetched(call)]_vars

\* The assembly has made a turn, with images, performers and annotations in
\* the lookup maps.
C22_Witness ==
  /\ call.pc = "assemble" /\ call.i >= 1
  /\ call.fetched.albumImages.val # EmptyMap
  /\ call.fetched.albumArtists.val # EmptyMap
  /\ call.fetched.artistGenres.val # EmptyMap
  /\ call.fetched.trackFiles.val # EmptyMap

\* C28: a BatchLookupISRCs call has at most one result set open at any
\* moment, on the two pools together, and none whenever it is about to issue
\* a statement: it never asks a pool for a connection while it holds one.
C28_AtMostOneConnection ==
  /\ Cardinality(call.held) <= 1
  /\ call.pc = "at" => call.held = {}

\* The call has read the rows of step 1 and is about to issue a sub-fetch
\* while the other calls hold every connection: it waits and holds none.
C28_Witness ==
  /\ call.pc = "at" /\ call.k > 1 /\ call.exhausted
  /\ ~NoKeys(call, Statements[call.k])
  /\ call.trackInfos # << >> /\ call.held = {}

\* Every connection of the primary pool is held by a call that waits for
\* one more.
AllHeldByWaiters ==
  /\ InUse(pool) = MaxOpenConns
  /\ \A p \in Positions : (pool[p.at] > 0 /\ p.held > 0) => p.wants

\* C27: whatever the number of concurrent LookupTrack, LookupISRC and
\* SearchTrack calls, the calls never reach a state where every connection
\* of the primary pool is held by a call that waits for another connection.
C27_NeverAllHeldByWaiters == ~AllHeldByWaiters

=============================================================================
